---- MODULE Spec2Model ----
(***************************************************************************)
(* Model of the CMDB repository scanner (src/scanner_module/scanner.py,    *)
(* src/scanner_module/db_connector.py): the technology classifier, the     *)
(* scan of one repository (clone, classify, cleanup), the upsert of the    *)
(* scan result and the batch loop.                                         *)
(*                                                                         *)
(* Strings that the code inspects character by character (file paths,      *)
(* signatures, URLs) are sequences of one-character strings; labels that   *)
(* the code only compares for equality are TLA+ strings.                   *)
(***************************************************************************)
EXTENDS Integers, Sequences, FiniteSets, TLC

(***************************************************************************)
(* Bounds                                                                  *)
(***************************************************************************)
\* largest number of files in a tree given to the classifier on its own
MaxTreeFiles == 2
\* largest number of files in the tree a clone leaves in the scratch directory
MaxCloneFiles == 1
\* largest number of URLs in one batch
MaxBatch == 2

(***************************************************************************)
(* String helpers (Python str methods used by the scanner)                 *)
(***************************************************************************)
\* str.endswith
EndsWith(s, suffix) ==
  /\ Len(s) >= Len(suffix)
  /\ SubSeq(s, Len(s) - Len(suffix) + 1, Len(s)) = suffix

\* str.startswith
StartsWith(s, prefix) ==
  /\ Len(s) >= Len(prefix)
  /\ SubSeq(s, 1, Len(prefix)) = prefix

\* x in s, for a character x
HasChar(s, c) == \E k \in 1..Len(s) : s[k] = c

\* needle in s (substring test)
Contains(s, needle) ==
  \E k \in 0..(Len(s) - Len(needle)) : SubSeq(s, k + 1, k + Len(needle)) = needle

\* s.split('/'): the components of a path, empty ones included
RECURSIVE SplitSlash(_)
SplitSlash(s) ==
  IF ~HasChar(s, "/") THEN << s >>
  ELSE LET k == CHOOSE j \in 1..Len(s) : s[j] = "/" /\ \A m \in 1..(j - 1) : s[m] # "/"
       IN  << SubSeq(s, 1, k - 1) >> \o SplitSlash(SubSeq(s, k + 1, Len(s)))

\* fnmatch.fnmatch(name, pat) on POSIX for patterns made of literal characters
\* and '*' (the only metacharacter the catalog uses): '*' matches any run of
\* characters, '/' included, and the whole name must match
RECURSIVE fnmatch(_, _)
fnmatch(name, pat) ==
  IF pat = << >> THEN name = << >>
  ELSE IF Head(pat) = "*"
       THEN \E k \in 0..Len(name) : fnmatch(SubSeq(name, k + 1, Len(name)), Tail(pat))
       ELSE /\ name # << >>
            /\ Head(name) = Head(pat)
            /\ fnmatch(Tail(name), Tail(pat))

\* the elements of a sequence
Range(s) == { s[k] : k \in 1..Len(s) }

\* the sequences that list every element of the finite set S exactly once
Orderings(S) ==
  { s \in [1..Cardinality(S) -> S] : \A a, b \in 1..Cardinality(S) : a # b => s[a] # s[b] }

(***************************************************************************)
(* Pattern catalog                                                         *)
(***************************************************************************)
technology_patterns ==
  << [technology |-> "Node.js",
      patterns |-> << <<"p","a","c","k","a","g","e",".","j","s","o","n">>,
                      <<"p","a","c","k","a","g","e","-","l","o","c","k",".","j","s","o","n">>,
                      <<"y","a","r","n",".","l","o","c","k">>,
                      <<"n","o","d","e","_","m","o","d","u","l","e","s">> >>],
     [technology |-> "Python",
      patterns |-> << <<"r","e","q","u","i","r","e","m","e","n","t","s",".","t","x","t">>,
                      <<"s","e","t","u","p",".","p","y">>,
                      <<"p","y","p","r","o","j","e","c","t",".","t","o","m","l">>,
                      <<"P","i","p","f","i","l","e">>,
                      <<"p","o","e","t","r","y",".","l","o","c","k">>,
                      <<"c","o","n","d","a",".","y","a","m","l">>,
                      <<"e","n","v","i","r","o","n","m","e","n","t",".","y","m","l">> >>],
     [technology |-> "Java",
      patterns |-> << <<"p","o","m",".","x","m","l">>,
                      <<"b","u","i","l","d",".","g","r","a","d","l","e">>,
                      <<"b","u","i","l","d",".","g","r","a","d","l","e",".","k","t","s">>,
                      <<"g","r","a","d","l","e",".","p","r","o","p","e","r","t","i","e","s">>,
                      <<"m","v","n","w">>,
                      <<"g","r","a","d","l","e","w">> >>],
     [technology |-> "PHP",
      patterns |-> << <<"c","o","m","p","o","s","e","r",".","j","s","o","n">>,
                      <<"c","o","m","p","o","s","e","r",".","l","o","c","k">>,
                      <<"i","n","d","e","x",".","p","h","p">> >>],
     [technology |-> "Ruby",
      patterns |-> << <<"G","e","m","f","i","l","e">>,
                      <<"G","e","m","f","i","l","e",".","l","o","c","k">>,
                      <<".","r","u","b","y","-","v","e","r","s","i","o","n">> >>],
     [technology |-> "Go",
      patterns |-> << <<"g","o",".","m","o","d">>,
                      <<"g","o",".","s","u","m">>,
                      <<"m","a","i","n",".","g","o">> >>],
     [technology |-> "Rust",
      patterns |-> << <<"C","a","r","g","o",".","t","o","m","l">>,
                      <<"C","a","r","g","o",".","l","o","c","k">> >>],
     [technology |-> "C#",
      patterns |-> << <<"*",".","c","s","p","r","o","j">>,
                      <<"*",".","s","l","n">>,
                      <<"p","a","c","k","a","g","e","s",".","c","o","n","f","i","g">>,
                      <<"p","r","o","j","e","c","t",".","j","s","o","n">> >>],
     [technology |-> "Flutter/Dart",
      patterns |-> << <<"p","u","b","s","p","e","c",".","y","a","m","l">>,
                      <<"p","u","b","s","p","e","c",".","l","o","c","k">> >>],
     [technology |-> "React",
      patterns |-> << <<"p","a","c","k","a","g","e",".","j","s","o","n">> >>],
     [technology |-> "Angular",
      patterns |-> << <<"a","n","g","u","l","a","r",".","j","s","o","n">>,
                      <<"a","n","g","u","l","a","r","-","c","l","i",".","j","s","o","n">> >>],
     [technology |-> "Vue.js",
      patterns |-> << <<"v","u","e",".","c","o","n","f","i","g",".","j","s">>,
                      <<"v","u","e",".","c","o","n","f","i","g",".","t","s">> >>],
     [technology |-> "Docker",
      patterns |-> << <<"D","o","c","k","e","r","f","i","l","e">>,
                      <<"d","o","c","k","e","r","-","c","o","m","p","o","s","e",".","y","m","l">>,
                      <<"d","o","c","k","e","r","-","c","o","m","p","o","s","e",".","y","a","m","l">>,
                      <<".","d","o","c","k","e","r","i","g","n","o","r","e">> >>],
     [technology |-> "Kubernetes",
      patterns |-> << <<"d","e","p","l","o","y","m","e","n","t",".","y","a","m","l">>,
                      <<"s","e","r","v","i","c","e",".","y","a","m","l">>,
                      <<"i","n","g","r","e","s","s",".","y","a","m","l">>,
                      <<"k","u","s","t","o","m","i","z","a","t","i","o","n",".","y","a","m","l">> >>],
     [technology |-> "Terraform",
      patterns |-> << <<"*",".","t","f">>,
                      <<"t","e","r","r","a","f","o","r","m",".","t","f","v","a","r","s">>,
                      <<".","t","e","r","r","a","f","o","r","m">> >>],
     [technology |-> "Android",
      patterns |-> << <<"b","u","i","l","d",".","g","r","a","d","l","e">>,
                      <<"A","n","d","r","o","i","d","M","a","n","i","f","e","s","t",".","x","m","l">> >>],
     [technology |-> "iOS",
      patterns |-> << <<"*",".","x","c","o","d","e","p","r","o","j">>,
                      <<"*",".","x","c","w","o","r","k","s","p","a","c","e">>,
                      <<"P","o","d","f","i","l","e">> >>] >>

\* the labels of the catalog in iteration order (dict insertion order)
CatalogOrder == [k \in 1..Len(technology_patterns) |-> technology_patterns[k].technology]

(***************************************************************************)
(* Files a cloned repository may contain                                   *)
(***************************************************************************)
f_package_json == <<"p","a","c","k","a","g","e",".","j","s","o","n">>
f_web_package_json == <<"w","e","b","/","p","a","c","k","a","g","e",".","j","s","o","n">>
f_pom_xml == <<"p","o","m",".","x","m","l">>
f_build_gradle == <<"b","u","i","l","d",".","g","r","a","d","l","e">>
f_app_AndroidManifest_xml == <<"a","p","p","/","A","n","d","r","o","i","d","M","a","n","i","f","e","s","t",".","x","m","l">>
f_App_csproj == <<"A","p","p",".","c","s","p","r","o","j">>
f_Program_cs == <<"P","r","o","g","r","a","m",".","c","s">>
f_README_md == <<"R","E","A","D","M","E",".","m","d">>
f_node_modules_x_package_json == <<"n","o","d","e","_","m","o","d","u","l","e","s","/","x","/","p","a","c","k","a","g","e",".","j","s","o","n">>
f_notes_py == <<"n","o","t","e","s",".","p","y">>
f_docs_AndroidManifest_xml_md == <<"d","o","c","s","/","A","n","d","r","o","i","d","M","a","n","i","f","e","s","t",".","x","m","l",".","m","d">>

f_gitignore == <<".","g","i","t","i","g","n","o","r","e">>

FileUniverse ==
  { f_package_json,
    f_gitignore,
    f_web_package_json,
    f_pom_xml,
    f_build_gradle,
    f_app_AndroidManifest_xml,
    f_App_csproj,
    f_Program_cs,
    f_README_md,
    f_node_modules_x_package_json,
    f_notes_py,
    f_docs_AndroidManifest_xml_md }

package_json == f_package_json
AndroidManifest_xml == <<"A","n","d","r","o","i","d","M","a","n","i","f","e","s","t",".","x","m","l">>
dot_cs == <<".","c","s">>
noise_dirs ==
  { <<"n","o","d","e","_","m","o","d","u","l","e","s">>,
    <<"_","_","p","y","c","a","c","h","e","_","_">>,
    <<"t","a","r","g","e","t">> }

(***************************************************************************)
(* Root package.json as the React validation reads it                      *)
(***************************************************************************)
\* A dependency section of the parsed manifest: its JSON type and whether
\* Python's  'react' in section  finds react in it (a key of a map, an
\* element of a list).  A JSON string behaves as a list here (membership
\* never raises) and a JSON number as null (membership raises TypeError).
DepShapes ==
  { [kind |-> k, has_react |-> h] : k \in {"map", "list"}, h \in BOOLEAN }
  \cup { [kind |-> k, has_react |-> FALSE] : k \in {"absent", "null"} }

NoSection == [kind |-> "absent", has_react |-> FALSE]

\* What open() and json.load() make of the root package.json: open fails,
\* the text is not JSON, the JSON value is not an object, or it is an object
\* with the two dependency sections.
Manifests ==
  { [kind |-> k, dependencies |-> NoSection, devDependencies |-> NoSection] :
      k \in {"unreadable", "invalid_json", "not_object"} }
  \cup { [kind |-> "object", dependencies |-> d, devDependencies |-> v] :
           d \in DepShapes, v \in DepShapes }

NoManifest == [kind |-> "none", dependencies |-> NoSection, devDependencies |-> NoSection]

\* 'react' in section: TypeError for null and numbers, membership otherwise;
\* an absent section is the default {} of dict.get
react_in(section) ==
  IF section.kind = "null" THEN "raise"
  ELSE IF section.has_react THEN "true" ELSE "false"

(***************************************************************************)
(* Tree walker and classifier                                              *)
(***************************************************************************)
\* directory components of a relative path (all but the file name)
DirParts(path) == LET parts == SplitSlash(path) IN SubSeq(parts, 1, Len(parts) - 1)

\* os.walk with the pruning of dirs[:]: the files of the tree that lie under
\* no hidden directory and under none of the noise directories
TreeWalk(tree) ==
  { f \in tree : \A k \in 1..Len(DirParts(f)) :
                   LET d == DirParts(f)[k]
                   IN  ~StartsWith(d, << "." >>) /\ d \notin noise_dirs }

\* os.path.exists(os.path.join(directory, 'package.json'))
root_package_json_exists(tree) ==
  \E f \in tree : SplitSlash(f)[1] = package_json

_matches_pattern(files, pattern) ==
  IF HasChar(pattern, "*")
  THEN \E k \in 1..Len(files) : fnmatch(files[k], pattern)
  ELSE \/ \E k \in 1..Len(files) : files[k] = pattern
       \/ \E k \in 1..Len(files) : EndsWith(files[k], pattern)

\* the React check without its final  return False : a repository with no
\* root package.json falls through to  return True
validate_body_fallthrough(technology, dir, files) ==
  CASE technology = "React" ->
         IF root_package_json_exists(dir.tree)
         THEN IF dir.manifest.kind # "object" THEN "raise"
              ELSE LET d == react_in(dir.manifest.dependencies)
                       v == react_in(dir.manifest.devDependencies)
                   IN  IF d # "false" THEN d ELSE v
         ELSE "true"
    [] technology = "Android" ->
         IF \E k \in 1..Len(files) : Contains(files[k], AndroidManifest_xml)
         THEN "true" ELSE "false"
    [] technology = "C#" ->
         IF \E k \in 1..Len(files) : EndsWith(files[k], dot_cs)
         THEN "true" ELSE "false"
    [] OTHER -> "true"

\* body of the try block of _validate_technology: "true", "false", or
\* "raise" when an exception leaves the block
validate_body(technology, dir, files) ==
  CASE technology = "React" ->
         IF root_package_json_exists(dir.tree)
         THEN IF dir.manifest.kind # "object" THEN "raise"
              ELSE LET d == react_in(dir.manifest.dependencies)
                       v == react_in(dir.manifest.devDependencies)
                   IN  IF d # "false" THEN d ELSE v
         ELSE "false"
    [] technology = "Android" ->
         IF \E k \in 1..Len(files) : Contains(files[k], AndroidManifest_xml)
         THEN "true" ELSE "false"
    [] technology = "C#" ->
         IF \E k \in 1..Len(files) : EndsWith(files[k], dot_cs)
         THEN "true" ELSE "false"
    [] OTHER -> "true"

\* except Exception: return True
_validate_technology(technology, dir, files) ==
  validate_body(technology, dir, files) # "false"

\* the catalog loop with  identified_technologies.insert(0, technology)
RECURSIVE match_technologies_prepend(_, _, _, _)
match_technologies_prepend(k, dir, files, identified) ==
  IF k > Len(technology_patterns) THEN identified
  ELSE LET technology == technology_patterns[k].technology
           patterns == technology_patterns[k].patterns
           matched == \E j \in 1..Len(patterns) : _matches_pattern(files, patterns[j])
       IN  match_technologies_prepend(k + 1, dir, files,
             IF /\ matched
                /\ technology \notin Range(identified)
                /\ _validate_technology(technology, dir, files)
             THEN << technology >> \o identified
             ELSE identified)

\* the loop over self.technology_patterns.items(), from catalog entry k on
RECURSIVE match_technologies(_, _, _, _)
match_technologies(k, dir, files, identified) ==
  IF k > Len(technology_patterns) THEN identified
  ELSE LET technology == technology_patterns[k].technology
           patterns == technology_patterns[k].patterns
           matched == \E j \in 1..Len(patterns) : _matches_pattern(files, patterns[j])
       IN  match_technologies(k + 1, dir, files,
             IF /\ matched
                /\ technology \notin Range(identified)
                /\ _validate_technology(technology, dir, files)
             THEN Append(identified, technology)
             ELSE identified)

\* scan_directory_for_technologies: all_files is the list the walk produced;
\* walk_error says that an exception left the try block, which returns []
scan_directory_for_technologies(dir, all_files, walk_error) ==
  IF walk_error THEN << >>
  ELSE match_technologies(1, dir, all_files, << >>)

(***************************************************************************)
(* URL parser                                                              *)
(***************************************************************************)
Whitespace == { " ", "\t", "\n", "\r" }

\* str.strip()
RECURSIVE strip(_)
strip(s) ==
  IF s = << >> THEN s
  ELSE IF Head(s) \in Whitespace THEN strip(Tail(s))
  ELSE IF s[Len(s)] \in Whitespace THEN strip(SubSeq(s, 1, Len(s) - 1))
  ELSE s

\* str.rstrip('/')
RECURSIVE rstrip_slash(_)
rstrip_slash(s) ==
  IF s # << >> /\ s[Len(s)] = "/" THEN rstrip_slash(SubSeq(s, 1, Len(s) - 1)) ELSE s

dot_git == <<".","g","i","t">>

\* str.replace('.git', ''): every non-overlapping occurrence, left to right
RECURSIVE replace_dot_git(_)
replace_dot_git(s) ==
  IF Len(s) < Len(dot_git) THEN s
  ELSE IF StartsWith(s, dot_git) THEN replace_dot_git(SubSeq(s, Len(dot_git) + 1, Len(s)))
  ELSE << Head(s) >> \o replace_dot_git(Tail(s))

\* position of the first occurrence of character c in s, 0 when there is none
IndexOf(s, c) ==
  IF HasChar(s, c)
  THEN CHOOSE j \in 1..Len(s) : s[j] = c /\ \A m \in 1..(j - 1) : s[m] # c
  ELSE 0

NoMatch == [matched |-> FALSE, owner |-> << >>, repo |-> << >>]

\* the tail without its optional  (?:\.git)?  group
tail_match_keep_git(rest) ==
  LET r == IF rest # << >> /\ rest[Len(rest)] = "/"
           THEN SubSeq(rest, 1, Len(rest) - 1) ELSE rest
      parts == SplitSlash(r)
  IN  IF Len(parts) = 2 /\ parts[1] # << >> /\ parts[2] # << >>
      THEN [matched |-> TRUE, owner |-> parts[1], repo |-> parts[2]]
      ELSE NoMatch

\* the common tail of the four patterns,  ([^/]+)/([^/]+?)(?:\.git)?/?$ ,
\* matched against the rest of the URL: the lazy group takes the shortest
\* non-empty text that lets the rest match, so one trailing .git is dropped
\* when something is left before it, and an optional final '/' is ignored
tail_match(rest) ==
  LET r == IF rest # << >> /\ rest[Len(rest)] = "/"
           THEN SubSeq(rest, 1, Len(rest) - 1) ELSE rest
      parts == SplitSlash(r)
  IN  IF Len(parts) = 2 /\ parts[1] # << >> /\ parts[2] # << >>
      THEN [matched |-> TRUE,
            owner |-> parts[1],
            repo |-> IF EndsWith(parts[2], dot_git) /\ Len(parts[2]) > Len(dot_git)
                     THEN SubSeq(parts[2], 1, Len(parts[2]) - Len(dot_git))
                     ELSE parts[2]]
      ELSE NoMatch

http_prefix == <<"h","t","t","p",":","/","/">>
https_prefix == <<"h","t","t","p","s",":","/","/">>
www_prefix == <<"w","w","w",".">>
github_com == <<"g","i","t","h","u","b",".","c","o","m">>
gitlab_com == <<"g","i","t","l","a","b",".","c","o","m">>
git_at == <<"g","i","t","@">>

\* the text after  https?://  or << >> with ok = FALSE
after_scheme(url) ==
  IF StartsWith(url, https_prefix)
  THEN [ok |-> TRUE, rest |-> SubSeq(url, Len(https_prefix) + 1, Len(url))]
  ELSE IF StartsWith(url, http_prefix)
  THEN [ok |-> TRUE, rest |-> SubSeq(url, Len(http_prefix) + 1, Len(url))]
  ELSE [ok |-> FALSE, rest |-> << >>]

\* the text after one of the two known hosts followed by the separator sep
after_known_host(s, sep) ==
  IF StartsWith(s, github_com \o << sep >>)
  THEN [ok |-> TRUE, rest |-> SubSeq(s, Len(github_com) + 2, Len(s))]
  ELSE IF StartsWith(s, gitlab_com \o << sep >>)
  THEN [ok |-> TRUE, rest |-> SubSeq(s, Len(gitlab_com) + 2, Len(s))]
  ELSE [ok |-> FALSE, rest |-> << >>]

\* patterns[0]: https?://(?:www\.)?(?:github|gitlab)\.com/ + tail
pattern_https_hosted(url) ==
  LET a == after_scheme(url)
      h == IF StartsWith(a.rest, www_prefix) /\
              after_known_host(SubSeq(a.rest, Len(www_prefix) + 1, Len(a.rest)), "/").ok
           THEN after_known_host(SubSeq(a.rest, Len(www_prefix) + 1, Len(a.rest)), "/")
           ELSE after_known_host(a.rest, "/")
  IN  IF a.ok /\ h.ok THEN tail_match(h.rest) ELSE NoMatch

\* patterns[1]: git@(?:github|gitlab)\.com: + tail
pattern_ssh_hosted(url) ==
  LET h == after_known_host(SubSeq(url, Len(git_at) + 1, Len(url)), ":")
  IN  IF StartsWith(url, git_at) /\ h.ok THEN tail_match(h.rest) ELSE NoMatch

\* patterns[2]: https?://[^/]+/ + tail
pattern_https_generic(url) ==
  LET a == after_scheme(url)
      k == IndexOf(a.rest, "/")
  IN  IF a.ok /\ k > 1 THEN tail_match(SubSeq(a.rest, k + 1, Len(a.rest))) ELSE NoMatch

\* patterns[3]: git@[^:]+: + tail
pattern_ssh_generic(url) ==
  LET r == SubSeq(url, Len(git_at) + 1, Len(url))
      k == IndexOf(r, ":")
  IN  IF StartsWith(url, git_at) /\ k > 1 THEN tail_match(SubSeq(r, k + 1, Len(r))) ELSE NoMatch

\* urlparse(url): what is left after a leading scheme (name and colon)
urlparse_rest(url) ==
  LET c == IndexOf(url, ":")
      SchemeChars ==
      { "a","b","c","d","e","f","g","h","i","j","k","l","m","n","o","p","q","r","s","t",
        "u","v","w","x","y","z","A","B","C","D","E","F","G","H","I","J","K","L","M","N",
        "O","P","Q","R","S","T","U","V","W","X","Y","Z","0","1","2","3","4","5","6","7",
        "8","9","+","-","." }
      has_scheme == /\ c > 1
                    /\ \A m \in 1..(c - 1) : url[m] \in SchemeChars
                    /\ url[1] \notin { "0","1","2","3","4","5","6","7","8","9","+","-","." }
  IN  IF has_scheme THEN SubSeq(url, c + 1, Len(url)) ELSE url

\* urlparse(url).netloc: the text between a leading // and the next '/'
urlparse_netloc(url) ==
  LET rest == urlparse_rest(url)
  IN  IF StartsWith(rest, << "/", "/" >>)
      THEN LET after == SubSeq(rest, 3, Len(rest))
               k == IndexOf(after, "/")
           IN  IF k = 0 THEN after ELSE SubSeq(after, 1, k - 1)
      ELSE << >>

\* urlparse raises ValueError("Invalid IPv6 URL") on a netloc with one
\* square bracket and not the other
urlparse_raises(url) ==
  LET netloc == urlparse_netloc(url)
  IN  HasChar(netloc, "[") # HasChar(netloc, "]")

\* urlparse(url).path for URLs without '?', '#' and ';': a leading scheme
\* is dropped, then a  //netloc  up to the next '/'
urlparse_path(url) ==
  LET rest == urlparse_rest(url)
  IN  IF StartsWith(rest, << "/", "/" >>)
      THEN LET after == SubSeq(rest, 3, Len(rest))
               k == IndexOf(after, "/")
           IN  IF k = 0 THEN << >> ELSE SubSeq(after, k, Len(after))
      ELSE rest

unknown == <<"u","n","k","n","o","w","n">>

\* extract_repo_info_from_url: << owner, repo >>
extract_repo_info_from_url(raw) ==
  LET url == rstrip_slash(strip(raw))
      m1 == pattern_https_hosted(url)
      m2 == pattern_ssh_hosted(url)
      m3 == pattern_https_generic(url)
      m4 == pattern_ssh_generic(url)
      path_parts == SelectSeq(SplitSlash(urlparse_path(url)), LAMBDA part : part # << >>)
      segs == SplitSlash(url)
  IN  IF m1.matched THEN << m1.owner, m1.repo >>
      ELSE IF m2.matched THEN << m2.owner, m2.repo >>
      ELSE IF m3.matched THEN << m3.owner, m3.repo >>
      ELSE IF m4.matched THEN << m4.owner, m4.repo >>
      ELSE IF urlparse_raises(url) THEN << unknown, unknown >>
      ELSE IF Len(path_parts) >= 2
      THEN << path_parts[Len(path_parts) - 1],
              replace_dot_git(path_parts[Len(path_parts)]) >>
      ELSE << unknown, replace_dot_git(segs[Len(segs)]) >>

(***************************************************************************)
(* State                                                                   *)
(***************************************************************************)
VARIABLES
  urls,          \* the list given to batch_scan_repositories
  pos,           \* 1-based position of the URL being processed (enumerate(urls, 1))
  pc,            \* position of the control flow
  temp_dir,      \* temp_dir of the running scan_repository: 0 is None, else the directory
  scratch,       \* the scratch directories that exist on disk
  tree,          \* the files in the scratch directory of the running scan
  manifest,      \* the root package.json of that tree
  result,        \* the result dict of the running scan_repository
  store,         \* table repositories: the set of its rows
  results,       \* the results dict of batch_scan_repositories: url -> entry, or NoOutcome
  all_files,     \* the list the tree walk produced
  technologies,  \* the list scan_directory_for_technologies returned
  clone_outcome, \* how the clone of the running scan ended ("none" before it)
  walked,        \* scan_directory_for_technologies was called in the running scan
  walk_failed,   \* an exception was raised inside scan_directory_for_technologies
  last_stored,   \* url -> the scan result given to the last upsert that committed, or NoRecord
  query,         \* the text given to process_natural_language_query
  intent,        \* the intent _try_pattern_matching chose ("none" when no pattern matched)
  argument,      \* match.group(1).strip() of the chosen intent (<< >> when it has no group)
  answer,        \* the dict process_natural_language_query returned, or NoAnswer
  handled,       \* the handlers that ran for the query, in order
  fetched,       \* the rows of the table in the order the handler's statement delivered them
  fetch_ok,      \* the read of the handler succeeded (FALSE: the method returned [])
  api_key,       \* GEMINI_API_KEY is set: an AI collaborator is configured
  ai_queries,    \* table ai_queries: the rows save_ai_query wrote, in order
  collaborator   \* what the Gemini model did for the query: "unused", "unavailable", "raised", "answered"

vars == << urls, pos, pc, temp_dir, scratch, tree, manifest, result, store, results,
           all_files, technologies, clone_outcome, walked, walk_failed, last_stored,
           query, intent, argument, answer, handled,
                  fetched, fetch_ok, api_key, ai_queries, collaborator >>

url_github == <<"h","t","t","p","s",":","/","/","g","i","t","h","u","b",".","c","o","m","/","a","c","m","e","/","a","p","p",".","g","i","t">>

\* the URLs a batch is made of
Urls ==
  { url_github,
    \* git@gitlab.com:ops/infra
    <<"g","i","t","@","g","i","t","l","a","b",".","c","o","m",":","o","p","s","/","i","n","f","r","a">> }

\* the lists of URLs a batch may be given, repetitions included
Batches == UNION { [1..n -> Urls] : n \in 1..MaxBatch }

\* the trees the classifier is run on
Trees == { t \in SUBSET FileUniverse : Cardinality(t) <= MaxTreeFiles }

\* the trees a clone may leave in the scratch directory: a manifest, a build
\* file and a file that matches no signature
CloneFiles == { f_package_json, f_pom_xml, f_README_md }

CloneTrees == { t \in SUBSET CloneFiles : Cardinality(t) <= MaxCloneFiles }

\* the root package.json of a cloned tree: not valid JSON, or an object
\* whose dependencies map has or has not react
CloneManifests ==
  { m \in Manifests :
      \/ m.kind = "invalid_json"
      \/ /\ m.kind = "object"
         /\ m.dependencies.kind = "map"
         /\ m.devDependencies.kind = "absent" }

CloneManifestsOf(t) == IF package_json \in t THEN CloneManifests ELSE { NoManifest }

\* the root package.json that goes with a tree
ManifestsOf(t) == IF package_json \in t THEN Manifests ELSE { NoManifest }

\* how subprocess.run for git clone may end

NoRecord == [present |-> FALSE]
NoOutcome == [present |-> FALSE]
NoAnswer == [present |-> FALSE]
NoExplanation == [kind |-> "none", url |-> << >>, msg |-> ""]

(***************************************************************************)
(* scan_repository                                                         *)
(***************************************************************************)
\* clone_repository without its  except subprocess.TimeoutExpired  branch
\* taken as a failure: a timed-out clone counts as cloned
clone_repository_timeout_cloned(outcome) == outcome \in { "ok", "timeout" }

\* clone_repository: True only when git clone ran and returned 0
clone_repository(outcome) == outcome = "ok"

\* the result dict before the try block
initial_result(url) ==
  LET info == extract_repo_info_from_url(url)
  IN  [url |-> url, owner_name |-> info[1], repo_name |-> info[2],
       technologies |-> << >>, is_identified |-> FALSE,
       status |-> "error", ai_explanation |-> NoExplanation]

\* the result returned when clone_repository returned False
clone_failed_result(r) ==
  [r EXCEPT !.status = "clone_failed",
            !.ai_explanation = [kind |-> "clone_failed", url |-> r.url, msg |-> ""]]

\* analyzed_result with  len(technologies) >= 0  for is_identified
analyzed_result_ge(r, techs) ==
  [r EXCEPT !.technologies = techs,
            !.is_identified = (Len(techs) >= 0),
            !.status = "analyzed",
            !.ai_explanation = IF Len(techs) > 0 THEN r.ai_explanation
                               ELSE [kind |-> "unidentified", url |-> r.url, msg |-> ""]]

\* the result after scan_directory_for_technologies returned techs
analyzed_result(r, techs) ==
  [r EXCEPT !.technologies = techs,
            !.is_identified = (Len(techs) > 0),
            !.status = "analyzed",
            !.ai_explanation = IF Len(techs) > 0 THEN r.ai_explanation
                               ELSE [kind |-> "unidentified", url |-> r.url, msg |-> ""]]

\* the result the except clause of scan_repository builds from exception msg
error_result(r, msg) ==
  [r EXCEPT !.status = "error",
            !.ai_explanation = [kind |-> "error", url |-> r.url, msg |-> msg]]

\* scan_repository without the  return result  of the clone-failed branch
after_clone_no_return(cloned) == "classify"

\* where scan_repository goes after the clone:  if not clone: ... return result
after_clone(cloned) == IF cloned THEN "classify" ELSE "cleanup"

(***************************************************************************)
(* Store                                                                   *)
(***************************************************************************)
\* insert_repository whose ON CONFLICT clause keeps the technologies of the
\* row in place and appends the new ones to them
insert_repository_merge(st, url, owner_name, repo_name, techs, is_identified, status, ai_explanation) ==
  { r \in st : r.url # url }
  \cup { [url |-> url, owner_name |-> owner_name, repo_name |-> repo_name,
          technologies |->
            IF \E r \in st : r.url = url
            THEN (CHOOSE r \in st : r.url = url).technologies
                   \o SelectSeq(techs, LAMBDA t :
                        \A k \in 1..Len((CHOOSE r \in st : r.url = url).technologies) :
                          (CHOOSE r \in st : r.url = url).technologies[k] # t)
            ELSE techs,
          is_identified |-> is_identified,
          status |-> status, ai_explanation |-> ai_explanation] }

\* a scan-and-store that writes the record of an analyzed scan only
insert_repository_analyzed_only(st, url, owner_name, repo_name, techs, is_identified, status, ai_explanation) ==
  IF status # "analyzed" THEN st
  ELSE { r \in st : r.url # url }
       \cup { [url |-> url, owner_name |-> owner_name, repo_name |-> repo_name,
               technologies |-> techs, is_identified |-> is_identified,
               status |-> status, ai_explanation |-> ai_explanation] }

\* insert_repository when the statement commits: the table afterwards.
\* INSERT ... ON CONFLICT (url) DO UPDATE SET replaces every column of the row
\* that has the url, or adds a row when none has it.
insert_repository(st, url, owner_name, repo_name, techs, is_identified, status, ai_explanation) ==
  { r \in st : r.url # url }
  \cup { [url |-> url, owner_name |-> owner_name, repo_name |-> repo_name,
          technologies |-> techs, is_identified |-> is_identified,
          status |-> status, ai_explanation |-> ai_explanation] }

\* the rows of table st that have the url
RowsFor(st, url) == { r \in st : r.url = url }

(***************************************************************************)
(* Batch loop                                                              *)
(***************************************************************************)
\* a batch loop that stops at the first URL whose scan-and-store failed
batch_continue_abort(p, n, success) == IF p < n /\ success THEN "next" ELSE "done"

\* the for loop of batch_scan_repositories goes on whatever success is
batch_continue(p, n, success) == IF p < n THEN "next" ELSE "done"

(***************************************************************************)
(* Actions of a batch scan                                                 *)
(***************************************************************************)
\* the state before a batch scan; keys: whether GEMINI_API_KEY is set
InitScan(keys) ==
  /\ urls \in Batches
  /\ pos = 1
  /\ pc = "next"
  /\ temp_dir = 0
  /\ scratch = {}
  /\ tree = {}
  /\ manifest = NoManifest
  /\ result = initial_result(urls[1])
  /\ store = {}
  /\ results = [u \in Urls |-> NoOutcome]
  /\ all_files = << >>
  /\ technologies = << >>
  /\ clone_outcome = "none"
  /\ walked = FALSE
  /\ walk_failed = FALSE
  /\ last_stored = [u \in Urls |-> NoRecord]
  /\ query = << >>
  /\ intent = "none"
  /\ argument = << >>
  /\ answer = NoAnswer
  /\ handled = << >>
  /\ fetched = << >>
  /\ fetch_ok = TRUE
  /\ api_key \in keys
  /\ ai_queries = << >>
  /\ collaborator = "unused"

Init == InitScan({FALSE})

\* batch_scan_repositories calls scan_and_store_repository(url), which calls
\* scan_repository(url): the result dict is built and tempfile.mkdtemp runs.
\* When mkdtemp raises, the except clause builds the error result and the
\* finally clause finds temp_dir None.
StartScan ==
  /\ pc = "next"
  /\ \E mkdtemp_ok \in BOOLEAN :
       IF mkdtemp_ok
       THEN /\ temp_dir' = pos
            /\ scratch' = scratch \cup { pos }
            /\ result' = initial_result(urls[pos])
            /\ pc' = "clone"
       ELSE /\ temp_dir' = 0
            /\ scratch' = scratch
            /\ result' = error_result(initial_result(urls[pos]), "mkdtemp")
            /\ pc' = "persist"
  /\ tree' = {}
  /\ manifest' = NoManifest
  /\ all_files' = << >>
  /\ technologies' = << >>
  /\ clone_outcome' = "none"
  /\ walked' = FALSE
  /\ walk_failed' = FALSE
  /\ UNCHANGED << urls, pos, store, results, last_stored,
                  query, intent, argument, answer, handled,
                  fetched, fetch_ok, api_key, ai_queries, collaborator >>

\* clone_repository(url, temp_dir) and the test of its return value
Clone ==
  /\ pc = "clone"
  /\ \E outcome \in { "ok", "nonzero", "timeout", "exception" } :
       /\ clone_outcome' = outcome
       /\ IF clone_repository(outcome)
          THEN /\ \E t \in CloneTrees : \E m \in CloneManifestsOf(t) :
                    tree' = t /\ manifest' = m
               /\ result' = result
          ELSE /\ tree' = {}
               /\ manifest' = NoManifest
               /\ result' = clone_failed_result(result)
       /\ pc' = after_clone(clone_repository(outcome))
  /\ UNCHANGED << urls, pos, temp_dir, scratch, store, results, all_files,
                  technologies, walked, walk_failed, last_stored,
                  query, intent, argument, answer, handled,
                  fetched, fetch_ok, api_key, ai_queries, collaborator >>

\* scan_directory_for_technologies(temp_dir) and the lines that fill the
\* result; the walk lists the files in some order
Classify ==
  /\ pc = "classify"
  /\ \E order \in Orderings(TreeWalk(tree)) : \E walk_error \in BOOLEAN :
       LET techs == scan_directory_for_technologies(
                      [tree |-> tree, manifest |-> manifest], order, walk_error)
       IN  /\ all_files' = order
           /\ walk_failed' = walk_error
           /\ technologies' = techs
           /\ result' = analyzed_result(result, techs)
  /\ walked' = TRUE
  /\ pc' = "cleanup"
  /\ UNCHANGED << urls, pos, temp_dir, scratch, tree, manifest, store, results,
                  clone_outcome, last_stored,
                  query, intent, argument, answer, handled,
                  fetched, fetch_ok, api_key, ai_queries, collaborator >>

\* the finally clause of scan_repository: shutil.rmtree(temp_dir), whose
\* exception is logged and dropped; scan_repository then returns result
Cleanup ==
  /\ pc = "cleanup"
  /\ \E rmtree_ok \in BOOLEAN :
       scratch' = IF rmtree_ok THEN scratch \ { temp_dir } ELSE scratch
  /\ tree' = {}
  /\ manifest' = NoManifest
  /\ all_files' = << >>
  /\ pc' = "persist"
  /\ UNCHANGED << urls, pos, temp_dir, result, store, results, technologies,
                  clone_outcome, walked, walk_failed, last_stored,
                  query, intent, argument, answer, handled,
                  fetched, fetch_ok, api_key, ai_queries, collaborator >>

\* the rest of scan_and_store_repository (insert_repository, which returns
\* None when the statement fails) and the results entry of the batch loop
Persist ==
  /\ pc = "persist"
  /\ \E db_ok \in BOOLEAN :
       /\ store' = IF db_ok
                   THEN insert_repository(store, result.url, result.owner_name,
                                          result.repo_name, result.technologies,
                                          result.is_identified, result.status,
                                          result.ai_explanation)
                   ELSE store
       /\ last_stored' = IF db_ok THEN [last_stored EXCEPT ![result.url] = result]
                         ELSE last_stored
       /\ results' = [results EXCEPT ![urls[pos]] =
                        [present |-> TRUE, success |-> db_ok,
                         scanned_at |-> pos, total |-> Len(urls)]]
       /\ pc' = batch_continue(pos, Len(urls), db_ok)
  /\ pos' = pos + 1
  /\ UNCHANGED << urls, temp_dir, scratch, tree, manifest, result, all_files,
                  technologies, clone_outcome, walked, walk_failed,
                  query, intent, argument, answer, handled,
                  fetched, fetch_ok, api_key, ai_queries, collaborator >>

Next == StartScan \/ Clone \/ Classify \/ Cleanup \/ Persist

Spec == Init /\ [][Next]_vars

(***************************************************************************)
(* The classifier on its own: a tree is drawn, walked and classified       *)
(***************************************************************************)
InitClassify ==
  /\ tree \in Trees
  /\ manifest \in ManifestsOf(tree)
  /\ pc = "walk"
  /\ urls = << url_github >>
  /\ pos = 1
  /\ temp_dir = 0
  /\ scratch = {}
  /\ result = initial_result(url_github)
  /\ store = {}
  /\ results = [u \in Urls |-> NoOutcome]
  /\ all_files = << >>
  /\ technologies = << >>
  /\ clone_outcome = "ok"
  /\ walked = FALSE
  /\ walk_failed = FALSE
  /\ last_stored = [u \in Urls |-> NoRecord]
  /\ query = << >>
  /\ intent = "none"
  /\ argument = << >>
  /\ answer = NoAnswer
  /\ handled = << >>
  /\ fetched = << >>
  /\ fetch_ok = TRUE
  /\ api_key = FALSE
  /\ ai_queries = << >>
  /\ collaborator = "unused"

\* the os.walk loop of scan_directory_for_technologies
WalkTree ==
  /\ pc = "walk"
  /\ \E order \in Orderings(TreeWalk(tree)) : all_files' = order
  /\ pc' = "match"
  /\ UNCHANGED << urls, pos, temp_dir, scratch, tree, manifest, result, store, results,
                  technologies, clone_outcome, walked, walk_failed, last_stored,
                  query, intent, argument, answer, handled,
                  fetched, fetch_ok, api_key, ai_queries, collaborator >>

\* the loop over the catalog of scan_directory_for_technologies
MatchCatalog ==
  /\ pc = "match"
  /\ \E walk_error \in BOOLEAN :
       /\ walk_failed' = walk_error
       /\ technologies' = scan_directory_for_technologies(
                            [tree |-> tree, manifest |-> manifest], all_files, walk_error)
  /\ walked' = TRUE
  /\ pc' = "classified"
  /\ UNCHANGED << urls, pos, temp_dir, scratch, tree, manifest, result, store, results,
                  all_files, clone_outcome, last_stored,
                  query, intent, argument, answer, handled,
                  fetched, fetch_ok, api_key, ai_queries, collaborator >>

NextClassify == WalkTree \/ MatchCatalog

SpecClassify == InitClassify /\ [][NextClassify]_vars

(***************************************************************************)
(* Properties of scan_repository and of the batch scan                     *)
(***************************************************************************)
\* scan_repository has returned (its finally clause has run) and
\* scan_and_store_repository has not yet called insert_repository
ScanReturned == pc = "persist"

\* the clone of the running scan failed
CloneFailed == clone_outcome \in { "nonzero", "timeout", "exception" }

\* C1: after scan_repository returns, on every exit path, the scratch
\* directory created for that scan no longer exists.
C1_ScratchRemovedOnReturn ==
  (ScanReturned /\ temp_dir # 0) => temp_dir \notin scratch

\* C2: whenever the clone step fails, scan_repository returns
\* status=clone_failed with an empty technology list, is_identified false and
\* an explanation that names the URL, and the tree walk and the
\* classification are never run for that scan.
C2_CloneFailureResult ==
  /\ (pc = "classify" => clone_outcome = "ok")
  /\ (CloneFailed /\ pc \in { "cleanup", "persist" }) =>
       /\ result.status = "clone_failed"
       /\ result.technologies = << >>
       /\ result.is_identified = FALSE
       /\ result.ai_explanation.kind = "clone_failed"
       /\ result.ai_explanation.url = urls[pos]
       /\ ~walked

C2_Witness == ScanReturned /\ clone_outcome = "timeout" /\ result.status = "clone_failed"

\* C3: an exception raised during classification yields a scan result with
\* status=error whose explanation embeds the exception message.
C3_ClassificationExceptionIsError ==
  (walk_failed /\ pc \in { "cleanup", "persist" }) =>
     /\ result.status = "error"
     /\ result.ai_explanation.kind = "error"

\* C4: every scan ends in one of the statuses clone_failed, analyzed, error
\* and never in pending (nor is pending ever stored); analyzed is reached only
\* after the clone succeeded and the classification ran, clone_failed only
\* from a failed clone.
C4_TerminalStatus ==
  /\ ScanReturned =>
       /\ result.status \in { "clone_failed", "analyzed", "error" }
       /\ result.status = "analyzed" => (clone_outcome = "ok" /\ walked)
       /\ result.status = "clone_failed" => (CloneFailed /\ ~walked)
  /\ \A r \in store : r.status \in { "clone_failed", "analyzed", "error" }

C4_Witness ==
  /\ ScanReturned
  /\ result.status = "analyzed"
  /\ \E r \in store : r.status = "clone_failed"

\* C5: in every scan result and in every stored record, is_identified is
\* true if and only if the technology list is non-empty.
C5_IdentifiedIffTechnologies ==
  /\ result.is_identified = (result.technologies # << >>)
  /\ \A r \in store : r.is_identified = (r.technologies # << >>)

\* a URL scanned twice whose second scan found nothing after the first found something
C5_Witness ==
  /\ pc = "done"
  /\ Len(urls) = 2
  /\ urls[1] = urls[2]
  /\ \E r \in store : r.status = "analyzed" /\ ~r.is_identified
  /\ results[urls[1]].success

\* C6: the store holds at most one record per URL, and the record of a URL
\* carries exactly the fields of the most recently stored scan of that URL.
C6_StoreHoldsLastScan ==
  \A u \in Urls :
    RowsFor(store, u) = IF last_stored[u] = NoRecord THEN {} ELSE { last_stored[u] }

\* a URL stored twice in one batch, the first time with technologies
C6_Witness ==
  /\ pc = "persist"
  /\ pos = 2
  /\ urls[1] = urls[2]
  /\ \E r \in store : r.technologies # << >>
  /\ result.technologies # << >>
  /\ \E r \in store : r.technologies # result.technologies

\* the scan-and-store of the URL at pos failed: the scan did not reach
\* analyzed, or the upsert did not commit
UrlFailed == result.status # "analyzed" \/ ~results'[urls[pos]].success

\* C7 as stated: a failure of a URL neither stops the processing of the URLs
\* after it nor removes or changes the records already persisted for the
\* URLs before it, and every URL of the input gets an outcome entry.
C7_EarlierRecordsUntouched ==
  /\ [][(pc = "persist" /\ UrlFailed) =>
          /\ \A j \in 1..(pos - 1) : RowsFor(store', urls[j]) = RowsFor(store, urls[j])
          /\ pc' = IF pos < Len(urls) THEN "next" ELSE "done"]_vars
  /\ [](pc = "done" => \A k \in 1..Len(urls) : results[urls[k]].present)

\* C7 amended: a failure of a URL neither stops the processing of the URLs
\* after it nor removes or changes the records persisted for other URLs (the
\* record of the same URL, when the batch repeats it, is replaced), and every
\* URL of the input gets an outcome entry.
C7_OtherRecordsUntouched ==
  /\ [][(pc = "persist" /\ UrlFailed) =>
          /\ \A u \in Urls \ { urls[pos] } : RowsFor(store', u) = RowsFor(store, u)
          /\ pc' = IF pos < Len(urls) THEN "next" ELSE "done"]_vars
  /\ [](pc = "done" => \A k \in 1..Len(urls) : results[urls[k]].present)

\* the second URL of a batch failed to clone after the first was stored
C7_Witness ==
  /\ pc = "done"
  /\ Len(urls) >= 2
  /\ urls[1] # urls[2]
  /\ results[urls[1]].success
  /\ \E r \in RowsFor(store, urls[1]) : r.status = "analyzed"
  /\ \E r \in RowsFor(store, urls[2]) : r.status = "clone_failed"

(***************************************************************************)
(* Properties of the classifier                                            *)
(***************************************************************************)
Classified == pc = "classified" /\ ~walk_failed

\* the technologies with a matching signature and a passing validation,
\* taken from the set of walked files
Accepted ==
  { technology_patterns[k].technology : k \in
      { k \in 1..Len(technology_patterns) :
          /\ \E j \in 1..Len(technology_patterns[k].patterns) : \E f \in TreeWalk(tree) :
               _matches_pattern(<< f >>, technology_patterns[k].patterns[j])
          /\ _validate_technology(technology_patterns[k].technology,
                                  [tree |-> tree, manifest |-> manifest], all_files) } }

\* C8: the result lists each accepted technology exactly once, in catalog
\* order, whatever the order of the files in the inventory.
C8_CatalogOrderNoDuplicates ==
  Classified =>
    LET accepted == Accepted
    IN  technologies = SelectSeq(CatalogOrder, LAMBDA t : t \in accepted)

\* two technologies accepted, the file of the later one listed first
C8_Witness ==
  /\ Classified
  /\ all_files = << f_app_AndroidManifest_xml, f_pom_xml >>
  /\ technologies = << "Java", "Android" >>

\* the root package.json lists react in one of its dependency sections
ListsReact(m) ==
  m.kind = "object" /\ (m.dependencies.has_react \/ m.devDependencies.has_react)

\* the root package.json parses to an object whose dependency sections are
\* maps (or absent) without react
ParsesWithoutReact(m) ==
  /\ m.kind = "object"
  /\ m.dependencies.kind \in { "map", "absent" }
  /\ m.devDependencies.kind \in { "map", "absent" }
  /\ ~m.dependencies.has_react
  /\ ~m.devDependencies.has_react

\* the React check cannot be carried out on the root package.json
CheckRaises(m) ==
  \/ m.kind \in { "unreadable", "invalid_json", "not_object" }
  \/ m.kind = "object" /\ (m.dependencies.kind = "null" \/ m.devDependencies.kind = "null")

\* C9 as stated: React is accepted only when a root package.json exists and
\* lists react; with a root package.json that parses and has no react entry,
\* React is rejected and Node.js is accepted.
C9_ReactOnlyWhenListed ==
  Classified =>
    /\ "React" \in Range(technologies) => (package_json \in tree /\ ListsReact(manifest))
    /\ (package_json \in tree /\ ParsesWithoutReact(manifest)) =>
         ("React" \notin Range(technologies) /\ "Node.js" \in Range(technologies))

\* C9 amended: React is accepted only when a root package.json exists and
\* either lists react or cannot be checked (fail-open); with a root
\* package.json that parses and has no react entry, React is rejected and
\* Node.js is accepted.
C9_ReactOnlyWhenListedOrUnchecked ==
  Classified =>
    /\ "React" \in Range(technologies) =>
         (package_json \in tree /\ (ListsReact(manifest) \/ CheckRaises(manifest)))
    /\ (package_json \in tree /\ ParsesWithoutReact(manifest)) =>
         ("React" \notin Range(technologies) /\ "Node.js" \in Range(technologies))

\* a root package.json without react next to one with a matching signature
C9_Witness ==
  /\ Classified
  /\ package_json \in tree
  /\ ParsesWithoutReact(manifest)
  /\ manifest.dependencies.kind = "map"
  /\ technologies = << "Node.js" >>

\* the React heuristic fails on the root package.json: it cannot be read, is
\* not valid JSON, is not an object, or has a dependency section that is not
\* a map
HeuristicFails(m) ==
  \/ m.kind \in { "unreadable", "invalid_json", "not_object" }
  \/ m.kind = "object" /\ m.dependencies.kind \in { "list", "null" }
  \/ m.kind = "object" /\ m.devDependencies.kind \in { "list", "null" }

\* C10: when the validation heuristic itself fails (root package.json
\* unreadable, not valid JSON, or with a dependency section of an unexpected
\* shape), the signature-matched technology is accepted, never rejected.
C10_FailOpen ==
  (Classified /\ package_json \in tree /\ HeuristicFails(manifest)) =>
     "React" \in Range(technologies)

\* the file name of a relative path (its last component)
BaseName(path) == SplitSlash(path)[Len(SplitSlash(path))]

\* the inventory holds an Android manifest: a walked file named AndroidManifest.xml
HasAndroidManifest == \E f \in TreeWalk(tree) : BaseName(f) = AndroidManifest_xml

\* C11: Android is accepted if and only if the inventory contains an Android
\* manifest file; an inventory with build.gradle and no Android manifest
\* yields Java and not Android.
C11_AndroidIffManifest ==
  Classified =>
    /\ ("Android" \in Range(technologies)) = HasAndroidManifest
    /\ (f_build_gradle \in TreeWalk(tree) /\ ~HasAndroidManifest) =>
         ("Java" \in Range(technologies) /\ "Android" \notin Range(technologies))

(***************************************************************************)
(* The URL parser on its own: a URL is drawn and parsed                    *)
(***************************************************************************)
MaxNameParts == 2

\* the pieces owner and repository names are built from
NamePieces == { <<"a">>, <<"B">>, <<".">>, <<"g","i","t">> }

RECURSIVE NamesOf(_)
NamesOf(n) ==
  IF n = 0 THEN { << >> }
  ELSE NamesOf(n - 1) \cup { s \o p : s \in NamesOf(n - 1), p \in NamePieces }

\* repository names: non-empty, and not ending in .git (the hosting services
\* refuse such names, since NAME.git is how they address the repository NAME)
Names == { s \in NamesOf(MaxNameParts) : s # << >> /\ ~EndsWith(s, dot_git) }

\* https://github.com/A/B
hosted_url(A, B) == https_prefix \o github_com \o << "/" >> \o A \o << "/" >> \o B

\* the two forms of the URL of B, and the same two with a trailing slash or
\* surrounding whitespace
HostedVariants(A, B) ==
  LET forms == { hosted_url(A, B), hosted_url(A, B) \o dot_git }
      slashed == forms \cup { u \o << "/" >> : u \in forms }
  IN  slashed \cup { << " " >> \o u \o << "\n" >> : u \in slashed }
                \cup { << "\t" >> \o u : u \in slashed }

HostedUrls == UNION { HostedVariants(A, B) : A \in NamePieces, B \in Names }

\* URLs of no hosted shape
MiscUrls ==
  {
    \* (the empty text)
    <<>>,
    \* https://github.com
    <<"h","t","t","p","s",":","/","/","g","i","t","h","u","b",".","c","o","m">>,
    \* foo.git
    <<"f","o","o",".","g","i","t">>,
    \* my.github.io
    <<"m","y",".","g","i","t","h","u","b",".","i","o">>,
    \* http://host/a.git
    <<"h","t","t","p",":","/","/","h","o","s","t","/","a",".","g","i","t">>,
    \* https://[
    <<"h","t","t","p","s",":","/","/","[">>,
    \* https://github.com/a/b/c
    <<"h","t","t","p","s",":","/","/","g","i","t","h","u","b",".","c","o","m","/","a","/","b","/","c">>,
    \* git@github.com:a
    <<"g","i","t","@","g","i","t","h","u","b",".","c","o","m",":","a">> }

UrlInputs == HostedUrls \cup MiscUrls

InitUrl ==
  /\ urls \in { << u >> : u \in UrlInputs }
  /\ pc = "parse"
  /\ pos = 1
  /\ temp_dir = 0
  /\ scratch = {}
  /\ tree = {}
  /\ manifest = NoManifest
  /\ result = NoRecord
  /\ store = {}
  /\ results = [u \in Urls |-> NoOutcome]
  /\ all_files = << >>
  /\ technologies = << >>
  /\ clone_outcome = "ok"
  /\ walked = FALSE
  /\ walk_failed = FALSE
  /\ last_stored = [u \in Urls |-> NoRecord]
  /\ query = << >>
  /\ intent = "none"
  /\ argument = << >>
  /\ answer = NoAnswer
  /\ handled = << >>
  /\ fetched = << >>
  /\ fetch_ok = TRUE
  /\ api_key = FALSE
  /\ ai_queries = << >>
  /\ collaborator = "unused"

\* the call of extract_repo_info_from_url that opens scan_repository
ParseUrl ==
  /\ pc = "parse"
  /\ result' = initial_result(urls[1])
  /\ pc' = "parsed"
  /\ UNCHANGED << urls, pos, temp_dir, scratch, tree, manifest, store, results,
                  all_files, technologies, clone_outcome, walked, walk_failed, last_stored,
                  query, intent, argument, answer, handled,
                  fetched, fetch_ok, api_key, ai_queries, collaborator >>

NextUrl == ParseUrl

SpecUrl == InitUrl /\ [][NextUrl]_vars

(***************************************************************************)
(* Properties of the URL parser                                            *)
(***************************************************************************)
\* the URL has been parsed
Parsed == pc = "parsed"

NormalUrl == rstrip_slash(strip(urls[1]))

\* the URL matches none of the four shape patterns
NoShapeMatches ==
  /\ ~pattern_https_hosted(NormalUrl).matched
  /\ ~pattern_ssh_hosted(NormalUrl).matched
  /\ ~pattern_https_generic(NormalUrl).matched
  /\ ~pattern_ssh_generic(NormalUrl).matched

\* the path segments of the URL (none when the URL cannot be split)
PathSegments ==
  IF urlparse_raises(NormalUrl) THEN << >>
  ELSE SelectSeq(SplitSlash(urlparse_path(NormalUrl)), LAMBDA part : part # << >>)

\* s with a trailing .git removed
WithoutTrailingGit(s) ==
  IF EndsWith(s, dot_git) THEN SubSeq(s, 1, Len(s) - Len(dot_git)) ELSE s

\* C13: the URL parser never raises; for a URL that matches none of the four
\* shape patterns and has fewer than two path segments it returns owner
\* "unknown" and, as repository name, the last path segment with a trailing
\* .git removed, or "unknown" when there is no such segment (the empty URL, a
\* URL that is only a host).
C13_FallbackDegradesToUnknown ==
  (Parsed /\ NoShapeMatches /\ Len(PathSegments) < 2) =>
    /\ result.owner_name = unknown
    /\ result.repo_name =
         IF PathSegments = << >> THEN unknown
         ELSE WithoutTrailingGit(PathSegments[Len(PathSegments)])

(***************************************************************************)
(* The query engine: text of a query, regular expressions                  *)
(***************************************************************************)
UpperLetters == <<"A","B","C","D","E","F","G","H","I","J","K","L","M","N","O","P","Q","R","S","T","U","V","W","X","Y","Z","Á","É","Í","Ó","Ú","Ñ">>

\* str.lower(), one character
LowerOf ==
  LET LowerLetters == <<"a","b","c","d","e","f","g","h","i","j","k","l","m","n","o","p","q","r","s","t","u","v","w","x","y","z","á","é","í","ó","ú","ñ">>
  IN  [c \in { UpperLetters[k] : k \in 1..Len(UpperLetters) } |->
         LowerLetters[CHOOSE k \in 1..Len(UpperLetters) : UpperLetters[k] = c]]

UpperSet == Range(UpperLetters)

lower_char(c) == IF c \in UpperSet THEN LowerOf[c] ELSE c

\* str.lower()
lower(s) == [k \in 1..Len(s) |-> lower_char(s[k])]

\* the pieces of a regular expression: literal text, \s+, one character of a
\* class, an alternation (?:a|b) of sequences of pieces, an optional
\* sequence (?:a)? and the capturing group ([^...]+) with its excluded characters
Lit(s) == [t |-> "lit", s |-> s]
Ws == [t |-> "ws"]
Cls(chars) == [t |-> "cls", c |-> chars]
Alt(branches) == [t |-> "alt", b |-> branches]
Opt(items) == [t |-> "alt", b |-> << items, << >> >>]
Group(excluded) == [t |-> "group", x |-> excluded]

NoGroup == [ok |-> FALSE, group |-> << >>]

\* the length of the run of characters from position i that are in chars
\* (or, with negate, that are not in chars)
RECURSIVE RunLength(_, _, _, _)
RunLength(q, i, chars, negate) ==
  IF i <= Len(q) /\ ((q[i] \in chars) # negate)
  THEN 1 + RunLength(q, i + 1, chars, negate)
  ELSE 0

\* literal text s stands at position i of q, letter case ignored (re.IGNORECASE)
LitAt(q, i, s) ==
  /\ i + Len(s) - 1 <= Len(q)
  /\ \A k \in 1..Len(s) :
       \/ q[i + k - 1] = s[k]
       \/ lower_char(q[i + k - 1]) = lower_char(s[k])

\* the backtracking match of a sequence of pieces at position i of q: the
\* first success in the order the re module tries (alternatives left to
\* right, repetitions longest first), with the text of the group
RECURSIVE re_match(_, _, _), re_try_lengths(_, _, _, _, _), re_try_branches(_, _, _, _)
re_match(items, q, i) ==
  IF Len(items) = 0 THEN [ok |-> TRUE, group |-> << >>]
  ELSE LET h == Head(items)
           rest == Tail(items)
       IN  CASE h.t = "lit" ->
                  IF LitAt(q, i, h.s) THEN re_match(rest, q, i + Len(h.s)) ELSE NoGroup
             [] h.t = "cls" ->
                  IF i <= Len(q) /\ lower_char(q[i]) \in h.c
                  THEN re_match(rest, q, i + 1) ELSE NoGroup
             [] h.t = "ws" ->
                  re_try_lengths(rest, q, i, RunLength(q, i, Whitespace, FALSE), FALSE)
             [] h.t = "group" ->
                  re_try_lengths(rest, q, i, RunLength(q, i, h.x, TRUE), TRUE)
             [] h.t = "alt" ->
                  re_try_branches(h.b, rest, q, i)

re_try_lengths(rest, q, i, k, capture) ==
  IF k = 0 THEN NoGroup
  ELSE LET r == re_match(rest, q, i + k)
       IN  IF r.ok
           THEN IF capture THEN [ok |-> TRUE, group |-> SubSeq(q, i, i + k - 1)] ELSE r
           ELSE re_try_lengths(rest, q, i, k - 1, capture)

re_try_branches(branches, rest, q, i) ==
  IF Len(branches) = 0 THEN NoGroup
  ELSE LET r == re_match(Head(branches) \o rest, q, i)
       IN  IF r.ok THEN r ELSE re_try_branches(Tail(branches), rest, q, i)

\* re.search: the match at the leftmost position that has one
RECURSIVE re_search_from(_, _, _)
re_search_from(items, q, i) ==
  IF i > Len(q) + 1 THEN NoGroup
  ELSE LET r == re_match(items, q, i)
       IN  IF r.ok THEN r ELSE re_search_from(items, q, i + 1)

re_search(items, q) == re_search_from(items, q, 1)

query_patterns ==
  [owner_repositories |->
     << Alt(<< << Lit(<<"r","e","p","o","s","i","t","o","r","i","o","s">>) >>, << Lit(<<"r","e","p","o","s">>) >> >>),
        Ws,
        Alt(<< << Lit(<<"d","e">>) >>, << Lit(<<"d","e","l">>) >> >>),
        Ws,
        Group({ "?" }) >>,
   repository_owner |->
     << Alt(<< << Lit(<<"q","u","i","é","n">>) >>, << Lit(<<"q","u","i","e","n">>) >> >>),
        Ws,
        Alt(<< << Lit(<<"e","s">>) >>, << Lit(<<"t","i","e","n","e">>) >> >>),
        Ws,
        Opt(<< Lit(<<"e","l">>), Ws >>),
        Alt(<< << Lit(<<"d","u","e","ñ","o">>) >>, << Lit(<<"p","r","o","p","i","e","t","a","r","i","o">>) >> >>),
        Ws,
        Alt(<< << Lit(<<"d","e">>) >>, << Lit(<<"d","e","l">>) >> >>),
        Ws,
        Opt(<< Lit(<<"r","e","p","o","s","i","t","o","r","i","o">>), Ws >>),
        Opt(<< Cls({ "\"", "'" }) >>),
        Group({ "\"", "'", "?" }),
        Opt(<< Cls({ "\"", "'" }) >>) >>,
   technologies_used |->
     << Alt(<< << Lit(<<"q","u","é">>) >>, << Lit(<<"q","u","e">>) >> >>),
        Ws,
        Lit(<<"t","e","c","n","o","l","o","g">>),
        Cls({ "í", "i" }),
        Lit(<<"a">>),
        Opt(<< Lit(<<"s">>) >>),
        Ws,
        Alt(<< << Lit(<<"u","s","a">>) >>, << Lit(<<"u","t","i","l","i","z","a">>) >>, << Lit(<<"s","e">>), Ws, Lit(<<"u","s","a","n">>) >> >>),
        Ws,
        Opt(<< Lit(<<"e","n">>), Ws >>),
        Opt(<< Lit(<<"e","l">>), Ws >>),
        Opt(<< Lit(<<"r","e","p","o","s","i","t","o","r","i","o">>), Ws >>),
        Opt(<< Cls({ "\"", "'" }) >>),
        Group({ "\"", "'", "?" }),
        Opt(<< Cls({ "\"", "'" }) >>) >>,
   projects_with_technology |->
     << Alt(<< << Lit(<<"q","u","é">>) >>, << Lit(<<"q","u","e">>) >> >>),
        Ws,
        Alt(<< << Lit(<<"r","e","p","o","s","i","t","o","r","i","o","s">>) >>, << Lit(<<"p","r","o","y","e","c","t","o","s">>) >> >>),
        Ws,
        Alt(<< << Lit(<<"u","s","a","n">>) >>, << Lit(<<"u","t","i","l","i","z","a","n">>) >>, << Lit(<<"t","i","e","n","e","n">>) >> >>),
        Ws,
        Group({ "?" }) >>,
   repository_count |->
     << Alt(<< << Lit(<<"c","u","á","n","t","o","s">>) >>, << Lit(<<"c","u","a","n","t","o","s">>) >> >>),
        Ws,
        Lit(<<"r","e","p","o","s","i","t","o","r","i","o","s">>) >>,
   statistics |->
     << Alt(<< << Lit(<<"e","s","t","a","d","í","s","t","i","c","a","s">>) >>, << Lit(<<"e","s","t","a","d","i","s","t","i","c","a","s">>) >>, << Lit(<<"s","t","a","t","s">>) >>, << Lit(<<"r","e","s","u","m","e","n">>) >> >>) >>,
   unidentified_repos |->
     << Alt(<< << Lit(<<"r","e","p","o","s","i","t","o","r","i","o","s">>) >>, << Lit(<<"r","e","p","o","s">>) >> >>),
        Ws,
        Opt(<< Lit(<<"n","o">>), Ws >>),
        Alt(<< << Lit(<<"i","d","e","n","t","i","f","i","c","a","d","o","s">>) >>, << Lit(<<"s","i","n">>), Ws, Lit(<<"i","d","e","n","t","i","f","i","c","a","r">>) >> >>) >> ]

\* the order in which the patterns are declared in query_patterns
intent_order_declared ==
  << "owner_repositories", "repository_owner", "technologies_used",
     "projects_with_technology", "repository_count", "statistics", "unidentified_repos" >>

\* the order in which _try_pattern_matching tests the patterns
intent_order ==
  << "repository_owner", "owner_repositories", "technologies_used",
     "projects_with_technology", "statistics", "unidentified_repos", "repository_count" >>


\* the chain of re.search tests: the first pattern of the order that matches
\* decides, and its group (stripped) is the argument of the handler
RECURSIVE first_match(_, _)
first_match(order, q) ==
  IF Len(order) = 0 THEN [intent |-> "none", argument |-> << >>]
  ELSE LET m == re_search(query_patterns[Head(order)], q)
       IN  IF m.ok THEN [intent |-> Head(order), argument |-> strip(m.group)]
           ELSE first_match(Tail(order), q)

_try_pattern_matching(q) == first_match(intent_order, q)

\* the intents whose pattern matches q
MatchingIntents(q) ==
  { name \in Range(intent_order) : re_search(query_patterns[name], q).ok }

\* one query for each intent
TriggerQueries ==
  {
    \* ¿Quién es el dueño del repositorio 'foo'?
    <<"¿","Q","u","i","é","n"," ","e","s"," ","e","l"," ","d","u","e","ñ","o"," ","d","e","l"," ","r","e","p","o","s","i","t","o","r","i","o"," ","'","f","o","o","'","?">>,
    \* repositorios de Acme
    <<"r","e","p","o","s","i","t","o","r","i","o","s"," ","d","e"," ","A","c","m","e">>,
    \* ¿Qué tecnologías usa foo?
    <<"¿","Q","u","é"," ","t","e","c","n","o","l","o","g","í","a","s"," ","u","s","a"," ","f","o","o","?">>,
    \* ¿Qué proyectos usan Python?
    <<"¿","Q","u","é"," ","p","r","o","y","e","c","t","o","s"," ","u","s","a","n"," ","P","y","t","h","o","n","?">>,
    \* estadísticas
    <<"e","s","t","a","d","í","s","t","i","c","a","s">>,
    \* repos no identificados
    <<"r","e","p","o","s"," ","n","o"," ","i","d","e","n","t","i","f","i","c","a","d","o","s">>,
    \* ¿Cuántos repositorios hay?
    <<"¿","C","u","á","n","t","o","s"," ","r","e","p","o","s","i","t","o","r","i","o","s"," ","h","a","y","?">> }

\* other wordings, and a query that matches no intent
OtherQueries ==
  {
    \* quien tiene el propietario de my_app
    <<"q","u","i","e","n"," ","t","i","e","n","e"," ","e","l"," ","p","r","o","p","i","e","t","a","r","i","o"," ","d","e"," ","m","y","_","a","p","p">>,
    \* repos del acme
    <<"r","e","p","o","s"," ","d","e","l"," ","a","c","m","e">>,
    \* que tecnologia se usan en el repositorio my_app
    <<"q","u","e"," ","t","e","c","n","o","l","o","g","i","a"," ","s","e"," ","u","s","a","n"," ","e","n"," ","e","l"," ","r","e","p","o","s","i","t","o","r","i","o"," ","m","y","_","a","p","p">>,
    \* que repositorios tienen python
    <<"q","u","e"," ","r","e","p","o","s","i","t","o","r","i","o","s"," ","t","i","e","n","e","n"," ","p","y","t","h","o","n">>,
    \* Resumen
    <<"R","e","s","u","m","e","n">>,
    \* repositorios sin identificar
    <<"r","e","p","o","s","i","t","o","r","i","o","s"," ","s","i","n"," ","i","d","e","n","t","i","f","i","c","a","r">>,
    \* hola
    <<"h","o","l","a">> }

\* the queries put to the engine: each of the above, and two of the first in one sentence
Queries ==
  TriggerQueries \cup OtherQueries
    \cup { a \o << " " >> \o b : a \in TriggerQueries, b \in TriggerQueries }

(***************************************************************************)
(* The query engine: the table it reads                                    *)
(***************************************************************************)
MaxStoreRows == 2

\* the URLs of the scanned repositories
StoreUrls ==
  { hosted_url(<<"a","c","m","e">>, <<"f","o","o">>), hosted_url(<<"A","c","m","e">>, <<"f","o","o","-","b","a","r">>),
    hosted_url(<<"a","c","m","e">>, <<"m","y","-","a","p","p">>), hosted_url(<<"A","c","m","e">>, <<"m","y","-","a","p","p">>) }

\* the rows scan_and_store_repository writes for a URL: an analyzed scan that
\* found Python, an analyzed scan that found nothing, a failed clone
RowsOf(url) ==
  { analyzed_result(initial_result(url), << "Python" >>),
    analyzed_result(initial_result(url), << >>),
    clone_failed_result(initial_result(url)) }

\* the tables: url is UNIQUE
Stores ==
  { st \in SUBSET UNION { RowsOf(url) : url \in StoreUrls } :
      /\ Cardinality(st) <= MaxStoreRows
      /\ \A r1, r2 \in st : r1.url = r2.url => r1 = r2 }

\* s LIKE p: % stands for any text, _ for any one character and a backslash
\* makes the next character literal
RECURSIVE Like(_, _)
Like(s, p) ==
  IF Len(p) = 0 THEN Len(s) = 0
  ELSE IF Head(p) = "%" THEN Like(s, Tail(p)) \/ (Len(s) > 0 /\ Like(Tail(s), p))
  ELSE IF Head(p) = "_" THEN Len(s) > 0 /\ Like(Tail(s), Tail(p))
  ELSE IF Head(p) = "\\" /\ Len(p) > 1
  THEN Len(s) > 0 /\ Head(s) = p[2] /\ Like(Tail(s), Tail(Tail(p)))
  ELSE Len(s) > 0 /\ Head(s) = Head(p) /\ Like(Tail(s), Tail(p))

\* WHERE LOWER(repo_name) LIKE LOWER(%s)  with the parameter  f'%{repo_name}%'
name_like(row, repo_name) ==
  Like(lower(row.repo_name), lower(<< "%" >> \o repo_name \o << "%" >>))

\* execute_custom_query, get_repositories_by_owner, get_repositories_by_technology,
\* get_all_repositories, get_unidentified_repositories: the rows the statement
\* returns, or [] when the connection or the statement fails (the except
\* branch of each method).  table lists the rows of the table in the order
\* the statement delivers them.
execute_custom_query(rows, read_ok) == IF read_ok THEN rows ELSE << >>

\* SELECT owner_name, repo_name, url FROM repositories WHERE LOWER(repo_name) LIKE LOWER(%s)
select_owner_by_name(table, repo_name, read_ok) ==
  LET hits == SelectSeq(table, LAMBDA row : name_like(row, repo_name))
  IN  execute_custom_query(
        [k \in 1..Len(hits) |-> [owner_name |-> hits[k].owner_name,
                                 repo_name |-> hits[k].repo_name,
                                 url |-> hits[k].url]], read_ok)

\* SELECT repo_name, owner_name, technologies FROM repositories WHERE LOWER(repo_name) LIKE LOWER(%s)
select_technologies_by_name(table, repo_name, read_ok) ==
  LET hits == SelectSeq(table, LAMBDA row : name_like(row, repo_name))
  IN  execute_custom_query(
        [k \in 1..Len(hits) |-> [repo_name |-> hits[k].repo_name,
                                 owner_name |-> hits[k].owner_name,
                                 technologies |-> hits[k].technologies]], read_ok)

\* SELECT * FROM repositories WHERE owner_name = %s ORDER BY repo_name
get_repositories_by_owner(table, owner_name, read_ok) ==
  IF read_ok THEN SelectSeq(table, LAMBDA row : row.owner_name = owner_name) ELSE << >>

\* the text of a technology label, character by character
label_text(label) ==
  CASE label = "Node.js" -> <<"N","o","d","e",".","j","s">>
    [] label = "Python" -> <<"P","y","t","h","o","n">>
    [] label = "Java" -> <<"J","a","v","a">>
    [] label = "PHP" -> <<"P","H","P">>
    [] label = "Ruby" -> <<"R","u","b","y">>
    [] label = "Go" -> <<"G","o">>
    [] label = "Rust" -> <<"R","u","s","t">>
    [] label = "C#" -> <<"C","#">>
    [] label = "Flutter/Dart" -> <<"F","l","u","t","t","e","r","/","D","a","r","t">>
    [] label = "React" -> <<"R","e","a","c","t">>
    [] label = "Angular" -> <<"A","n","g","u","l","a","r">>
    [] label = "Vue.js" -> <<"V","u","e",".","j","s">>
    [] label = "Docker" -> <<"D","o","c","k","e","r">>
    [] label = "Kubernetes" -> <<"K","u","b","e","r","n","e","t","e","s">>
    [] label = "Terraform" -> <<"T","e","r","r","a","f","o","r","m">>
    [] label = "Android" -> <<"A","n","d","r","o","i","d">>
    [] label = "iOS" -> <<"i","O","S">>

\* SELECT * FROM repositories WHERE %s = ANY(technologies) ORDER BY owner_name, repo_name
get_repositories_by_technology(table, technology, read_ok) ==
  IF read_ok
  THEN SelectSeq(table, LAMBDA row : \E k \in 1..Len(row.technologies) :
                                       label_text(row.technologies[k]) = technology)
  ELSE << >>

\* SELECT * FROM repositories ORDER BY created_at DESC
get_all_repositories(table, read_ok) == IF read_ok THEN table ELSE << >>

\* SELECT * FROM repositories WHERE is_identified = FALSE ORDER BY created_at DESC
get_unidentified_repositories(table, read_ok) ==
  IF read_ok THEN SelectSeq(table, LAMBDA row : ~row.is_identified) ELSE << >>

(***************************************************************************)
(* The query engine: handlers                                              *)
(***************************************************************************)
_find_repository_owner(repo_name, repos) ==
  IF Len(repos) > 0
  THEN IF Len(repos) = 1
       THEN [success |-> TRUE,
             explanation |-> [kind |-> "owner_of_repository",
                              repo_name |-> repos[1].repo_name,
                              owner_name |-> repos[1].owner_name],
             results |-> << repos[1] >>,
             count |-> 1]
       ELSE [success |-> TRUE,
             explanation |-> [kind |-> "repositories_matching",
                              n |-> Len(repos), repo_name |-> repo_name],
             results |-> repos,
             count |-> Len(repos)]
  ELSE [success |-> FALSE,
        explanation |-> [kind |-> "repository_not_found", repo_name |-> repo_name]]

_find_repositories_by_owner(owner_name, repos) ==
  IF Len(repos) > 0
  THEN [success |-> TRUE,
        explanation |-> [kind |-> "owner_has", owner_name |-> owner_name, n |-> Len(repos)],
        results |-> repos,
        count |-> Len(repos)]
  ELSE [success |-> FALSE,
        explanation |-> [kind |-> "owner_has_none", owner_name |-> owner_name]]

_find_technologies_for_repository(repo_name, repos) ==
  IF Len(repos) > 0
  THEN LET repo == repos[1]
       IN  IF Len(repo.technologies) > 0
           THEN [success |-> TRUE,
                 explanation |-> [kind |-> "repository_uses",
                                  repo_name |-> repo.repo_name,
                                  owner_name |-> repo.owner_name,
                                  tech_list |-> repo.technologies],
                 results |-> << [repository |-> repo.repo_name,
                                 technologies |-> repo.technologies] >>,
                 count |-> Len(repo.technologies)]
           ELSE [success |-> TRUE,
                 explanation |-> [kind |-> "no_technologies_identified",
                                  repo_name |-> repo.repo_name],
                 results |-> << >>,
                 count |-> 0]
  ELSE [success |-> FALSE,
        explanation |-> [kind |-> "repository_not_found", repo_name |-> repo_name]]

_find_projects_with_technology(technology, repos) ==
  IF Len(repos) > 0
  THEN [success |-> TRUE,
        explanation |-> [kind |-> "repositories_using", n |-> Len(repos),
                         technology |-> technology],
        results |-> repos,
        count |-> Len(repos)]
  ELSE [success |-> FALSE,
        explanation |-> [kind |-> "none_using", technology |-> technology]]

\* all_techs: the technology lists of the rows, one after the other
RECURSIVE all_technologies(_)
all_technologies(repos) ==
  IF Len(repos) = 0 THEN << >>
  ELSE Head(repos).technologies \o all_technologies(Tail(repos))

\* the keys of tech_counts in the order they were inserted
RECURSIVE first_seen(_)
first_seen(techs) ==
  IF Len(techs) = 0 THEN << >>
  ELSE << Head(techs) >>
         \o first_seen(SelectSeq(Tail(techs), LAMBDA t : t # Head(techs)))

\* tech_counts[tech]
count_of(techs, tech) == Len(SelectSeq(techs, LAMBDA t : t = tech))

\* the last item with the greatest count: what an unstable sort may put first
last_max(keys, techs) ==
  CHOOSE k \in 1..Len(keys) :
    /\ \A j \in 1..Len(keys) : count_of(techs, keys[j]) <= count_of(techs, keys[k])
    /\ \A j \in (k + 1)..Len(keys) : count_of(techs, keys[j]) < count_of(techs, keys[k])

\* the item a stable sort with reverse=True puts first: of the items with the
\* greatest count the one that comes first in the list
first_max(keys, techs) ==
  CHOOSE k \in 1..Len(keys) :
    /\ \A j \in 1..Len(keys) : count_of(techs, keys[j]) <= count_of(techs, keys[k])
    /\ \A j \in 1..(k - 1) : count_of(techs, keys[j]) < count_of(techs, keys[k])

\* sorted(tech_counts.items(), key=lambda x : x[1], reverse=True): the sort
\* is stable, so items with equal counts keep their insertion order
RECURSIVE sorted_by_count(_, _)
sorted_by_count(keys, techs) ==
  IF Len(keys) = 0 THEN << >>
  ELSE LET top == first_max(keys, techs)
       IN  << << keys[top], count_of(techs, keys[top]) >> >>
             \o sorted_by_count(SelectSeq(keys, LAMBDA t : t # keys[top]), techs)

\* the slice [:5]
top_limit == 5

_get_general_statistics(all_repos) ==
  IF Len(all_repos) = 0
  THEN [success |-> FALSE, explanation |-> [kind |-> "no_repositories"]]
  ELSE LET total == Len(all_repos)
           identified == Len(SelectSeq(all_repos, LAMBDA r : r.is_identified))
           all_techs == all_technologies(all_repos)
           ranked == sorted_by_count(first_seen(all_techs), all_techs)
           top_techs == SubSeq(ranked, 1, IF Len(ranked) < top_limit THEN Len(ranked)
                                          ELSE top_limit)
       IN  [success |-> TRUE,
            explanation |-> [kind |-> "statistics", total |-> total,
                             identified |-> identified,
                             percent_tenths |-> (identified * 1000) \div total,
                             unidentified |-> total - identified,
                             technologies |-> top_techs],
            results |-> [total |-> total, identified |-> identified,
                         technologies |-> top_techs],
            count |-> total]

_get_unidentified_repositories(unidentified) ==
  IF Len(unidentified) > 0
  THEN [success |-> TRUE,
        explanation |-> [kind |-> "unidentified", n |-> Len(unidentified)],
        results |-> unidentified,
        count |-> Len(unidentified)]
  ELSE [success |-> TRUE,
        explanation |-> [kind |-> "all_identified"],
        results |-> << >>,
        count |-> 0]

_count_repositories(all_repos) ==
  [success |-> TRUE,
   explanation |-> [kind |-> "repository_count", total |-> Len(all_repos)],
   results |-> << [total_repositories |-> Len(all_repos)] >>,
   count |-> Len(all_repos)]

get_suggested_queries ==
  << <<"¿","Q","u","i","é","n"," ","e","s"," ","e","l"," ","d","u","e","ñ","o"," ","d","e","l"," ","r","e","p","o","s","i","t","o","r","i","o"," ","'","p","r","o","y","e","c","t","o","-","e","j","e","m","p","l","o","'","?">>,
     <<"¿","Q","u","é"," ","t","e","c","n","o","l","o","g","í","a","s"," ","u","s","a"," ","e","l"," ","r","e","p","o","s","i","t","o","r","i","o"," ","'","m","i","-","a","p","p","'","?">>,
     <<"r","e","p","o","s","i","t","o","r","i","o","s"," ","d","e"," ","u","s","u","a","r","i","o"," ","j","u","a","n">>,
     <<"p","r","o","y","e","c","t","o","s"," ","q","u","e"," ","u","s","a","n"," ","P","y","t","h","o","n">>,
     <<"r","e","p","o","s","i","t","o","r","i","o","s"," ","n","o"," ","i","d","e","n","t","i","f","i","c","a","d","o","s">>,
     <<"e","s","t","a","d","í","s","t","i","c","a","s"," ","d","e","l"," ","s","i","s","t","e","m","a">>,
     <<"¿","c","u","á","n","t","o","s"," ","r","e","p","o","s","i","t","o","r","i","o","s"," ","h","a","y","?">> >>

\* a fallback that reports the query as answered
_process_fallback_answered(q) ==
  [success |-> TRUE, explanation |-> [kind |-> "could_not_process", query |-> q],
   suggestions |-> << >>]

_process_fallback(q) ==
  [success |-> FALSE,
   explanation |-> [kind |-> "could_not_process", query |-> q],
   suggestions |-> get_suggested_queries]

\* the handler _try_pattern_matching calls for the intent, on the rows its
\* read returns; with no intent (and no API key) the fallback
run_handler(name, arg, table, read_ok, query_lower) ==
  CASE name = "repository_owner" ->
         _find_repository_owner(arg, select_owner_by_name(table, arg, read_ok))
    [] name = "owner_repositories" ->
         _find_repositories_by_owner(arg, get_repositories_by_owner(table, arg, read_ok))
    [] name = "technologies_used" ->
         _find_technologies_for_repository(arg, select_technologies_by_name(table, arg, read_ok))
    [] name = "projects_with_technology" ->
         _find_projects_with_technology(arg, get_repositories_by_technology(table, arg, read_ok))
    [] name = "statistics" -> _get_general_statistics(get_all_repositories(table, read_ok))
    [] name = "unidentified_repos" ->
         _get_unidentified_repositories(get_unidentified_repositories(table, read_ok))
    [] name = "repository_count" -> _count_repositories(get_all_repositories(table, read_ok))
    [] name = "none" -> _process_fallback(query_lower)

\* the name of the handler that runs for an intent
handler_of(name) == IF name = "none" THEN "_process_fallback" ELSE name

(***************************************************************************)
(* The query engine: a table and a query are drawn, the query is answered  *)
(***************************************************************************)
InitEngine(tables, queries, keys) ==
  /\ store \in tables
  /\ query \in queries
  /\ api_key \in keys
  /\ pc = "query"
  /\ intent = "none"
  /\ argument = << >>
  /\ answer = NoAnswer
  /\ handled = << >>
  /\ fetched = << >>
  /\ fetch_ok = TRUE
  /\ ai_queries = << >>
  /\ collaborator = "unused"
  /\ urls = << url_github >>
  /\ pos = 1
  /\ temp_dir = 0
  /\ scratch = {}
  /\ tree = {}
  /\ manifest = NoManifest
  /\ result = NoRecord
  /\ results = [u \in Urls |-> NoOutcome]
  /\ all_files = << >>
  /\ technologies = << >>
  /\ clone_outcome = "none"
  /\ walked = FALSE
  /\ walk_failed = FALSE
  /\ last_stored = [u \in Urls |-> NoRecord]

\* no GEMINI_API_KEY in the environment
InitQuery == InitEngine(Stores, Queries, {FALSE})

\* process_natural_language_query up to the choice of the handler:
\* query.lower().strip() and the tests of _try_pattern_matching
MatchIntent ==
  /\ pc = "query"
  /\ LET m == _try_pattern_matching(strip(lower(query)))
     IN  /\ intent' = m.intent
         /\ argument' = m.argument
  /\ pc' = "handle"
  /\ UNCHANGED << urls, pos, temp_dir, scratch, tree, manifest, result, store, results,
                  all_files, technologies, clone_outcome, walked, walk_failed, last_stored,
                  query, answer, handled,
                  fetched, fetch_ok, api_key, ai_queries, collaborator >>

\* an AI path that answers whatever the model did
_process_with_ai_unguarded(q, model_ok, generate_ok) ==
  [success |-> TRUE, explanation |-> [kind |-> "ai_response", query |-> q],
   results |-> << >>, count |-> 0, ai_processed |-> TRUE]

\* _process_with_ai: without a model the explanation of the unavailable
\* model; else the read of the table (whose failure is an empty list), the
\* call of the model, which answers or raises, and the log of the answer
_process_with_ai(q, model_ok, generate_ok) ==
  IF ~model_ok THEN [success |-> FALSE, explanation |-> [kind |-> "model_unavailable", query |-> << >>]]
  ELSE IF ~generate_ok THEN [success |-> FALSE, explanation |-> [kind |-> "gemini_error", query |-> << >>]]
  ELSE [success |-> TRUE, explanation |-> [kind |-> "ai_response", query |-> q],
        results |-> << >>, count |-> 0, ai_processed |-> TRUE]

\* save_ai_query: the row is appended, or the insert fails and is swallowed
save_ai_query(log, q, query_type, save_ok) ==
  IF save_ok THEN Append(log, [query |-> q, query_type |-> query_type]) ELSE log

\* the handler: its read of the table, which fails or delivers the rows in
\* an order the table decides, and the dict it returns; with no intent the
\* AI path when an API key is set, else the fallback. The table is read when
\* an intent was found or the AI path got as far as get_all_repositories
RunHandler ==
  /\ pc = "handle"
  /\ \E model_ok \in BOOLEAN, generate_ok \in BOOLEAN, save_ok \in BOOLEAN :
     \E read_ok \in (IF intent # "none" \/ (api_key /\ model_ok) THEN BOOLEAN ELSE {TRUE}) :
     \E table \in (IF intent # "none" \/ (api_key /\ model_ok) THEN Orderings(store) ELSE {<< >>}) :
       /\ fetched' = table
       /\ fetch_ok' = read_ok
       /\ IF intent = "none" /\ api_key
          THEN /\ answer' = _process_with_ai(query, model_ok, generate_ok)
               /\ collaborator' = IF ~model_ok THEN "unavailable"
                                  ELSE IF ~generate_ok THEN "raised" ELSE "answered"
               /\ ai_queries' = IF model_ok /\ generate_ok
                                THEN save_ai_query(ai_queries, query, "natural_language", save_ok)
                                ELSE ai_queries
               /\ handled' = Append(handled, "_process_with_ai")
          ELSE /\ answer' = run_handler(intent, argument, table, read_ok, strip(lower(query)))
               /\ ai_queries' = ai_queries
               /\ collaborator' = collaborator
               /\ handled' = Append(handled, handler_of(intent))
  /\ pc' = "answered"
  /\ UNCHANGED << urls, pos, temp_dir, scratch, tree, manifest, result, store, results,
                  all_files, technologies, clone_outcome, walked, walk_failed, last_stored,
                  query, intent, argument, api_key >>

NextQuery == MatchIntent \/ RunHandler

SpecQuery == InitQuery /\ [][NextQuery]_vars

\* the choice of the handler does not read the table: the queries on an
\* empty table
InitDispatch == InitEngine({{}}, Queries, {FALSE})

SpecDispatch == InitDispatch /\ [][NextQuery]_vars

(***************************************************************************)
(* Properties of the query engine                                          *)
(***************************************************************************)
\* the query has been answered
Answered == pc = "answered"

\* the text the patterns are tested on
QueryLower == strip(lower(query))

\* the order of the intents the specification gives
PriorityOrder ==
  << "repository_owner", "owner_repositories", "technologies_used",
     "projects_with_technology", "statistics", "unidentified_repos", "repository_count" >>

\* the first element of the sequence order that is in the set hits
FirstIn(order, hits) ==
  order[CHOOSE k \in 1..Len(order) :
          /\ order[k] \in hits
          /\ \A j \in 1..(k - 1) : order[j] \notin hits]

\* C14: for any query that matches the patterns of several intents, exactly
\* one handler runs, and it is the handler of the matching intent that comes
\* first in the order repository_owner, owner_repositories,
\* technologies_used, projects_with_technology, statistics,
\* unidentified_repos, repository_count.
C14_FirstMatchingIntentWins ==
  Answered =>
    LET hits == MatchingIntents(QueryLower)
    IN  Cardinality(hits) >= 2 =>
          /\ Len(handled) = 1
          /\ handled[1] = FirstIn(PriorityOrder, hits)

\* a query that matches the patterns of repository_owner and of
\* owner_repositories has been answered by the repository_owner handler
C14_Witness ==
  /\ Answered
  /\ { "repository_owner", "owner_repositories" } \subseteq MatchingIntents(QueryLower)
  /\ handled = << "repository_owner" >>

\* the text a pattern's group takes from the query as it was typed
NamedBy(name) == strip(re_search(query_patterns[name], strip(query)).group)

\* the rows whose repository name contains X, letter case ignored
RowsNamed(X) == { r \in store : Contains(lower(r.repo_name), lower(X)) }

\* the url column of the rows of a result list
UrlsOf(rows) == { rows[k].url : k \in 1..Len(rows) }

\* C15: a repository_owner query for name X is answered from the records
\* whose repository name contains X case-insensitively: no such record gives
\* success=false with a not-found explanation, exactly one gives success=true
\* with count 1 and an answer naming that record's owner, and n>1 give
\* success=true with all n records and count n.
C15_OwnerAnsweredFromContainingRecords ==
  (Answered /\ intent = "repository_owner") =>
    LET hits == RowsNamed(NamedBy("repository_owner"))
        n == Cardinality(hits)
    IN  /\ n = 0 => /\ ~answer.success
                    /\ answer.explanation.kind = "repository_not_found"
        /\ n = 1 => /\ answer.success
                    /\ answer.count = 1
                    /\ answer.explanation.kind = "owner_of_repository"
                    /\ \E r \in hits : answer.explanation.owner_name = r.owner_name
        /\ n > 1 => /\ answer.success
                    /\ answer.count = n
                    /\ UrlsOf(answer.results) = { r.url : r \in hits }

\* C16: an owner_repositories query naming owner X returns success=true with
\* the list and count of all records whose owner_name equals X exactly
\* whenever the store holds at least one such record, and success=false when
\* it holds none; this holds for every owner name the store can contain,
\* including names with upper-case letters.
C16_OwnerRepositoriesExactMatch ==
  (Answered /\ intent = "owner_repositories") =>
    LET hits == { r \in store : r.owner_name = NamedBy("owner_repositories") }
    IN  IF hits # {}
        THEN /\ answer.success
             /\ answer.count = Cardinality(hits)
             /\ Range(answer.results) = hits
        ELSE ~answer.success

\* C17: a projects_with_technology query naming a technology Y lists all
\* records whose technology list contains Y as an exact member; for every
\* label Y of the pattern catalog and every store holding a record classified
\* with Y, the query naming Y returns that record.
C17_ProjectsWithTechnologyListed ==
  (Answered /\ intent = "projects_with_technology") =>
    LET Y == NamedBy("projects_with_technology")
        hits == { r \in store : \E k \in 1..Len(r.technologies) :
                                  label_text(r.technologies[k]) = Y }
    IN  hits # {} => /\ answer.success
                     /\ Range(answer.results) = hits

\* C18: a technologies_used query for name X reports the technology list of
\* the first record whose repository name contains X; when that record's list
\* is empty the result is success=true with count 0, empty results and a
\* distinct no-technologies-identified explanation, and only when no record
\* matches is the result success=false.
C18_TechnologiesOfFirstContainingRecord ==
  (Answered /\ intent = "technologies_used") =>
    LET hits == RowsNamed(NamedBy("technologies_used"))
    IN  /\ answer.success = (hits # {})
        /\ answer.success =>
             \E r \in hits :
               IF Len(r.technologies) = 0
               THEN /\ answer.count = 0
                    /\ answer.results = << >>
                    /\ answer.explanation.kind = "no_technologies_identified"
               ELSE /\ answer.explanation.kind = "repository_uses"
                    /\ answer.explanation.tech_list = r.technologies
                    /\ answer.results[1].technologies = r.technologies

\* C19: the unidentified_repos query against a store in which every record
\* has at least one technology (including the empty store) returns
\* success=true, an empty result list, count 0 and the all-identified message,
\* never success=false; against any other store it returns exactly the
\* records with zero technologies.
C19_UnidentifiedListed ==
  (Answered /\ intent = "unidentified_repos") =>
    LET zero == { r \in store : Len(r.technologies) = 0 }
    IN  /\ answer.success
        /\ IF zero = {}
           THEN /\ answer.results = << >>
                /\ answer.count = 0
                /\ answer.explanation.kind = "all_identified"
           ELSE Range(answer.results) = zero

\* C20: the statistics intent on a store with zero records returns the
\* no-repositories explanation and performs no division; on a non-empty store
\* it reports total = number of records and identified = number of records
\* with is_identified true, with identified <= total.
C20_StatisticsTotals ==
  (Answered /\ intent = "statistics") =>
    IF store = {}
    THEN answer.explanation.kind = "no_repositories"
    ELSE /\ answer.success
         /\ answer.results.total = Cardinality(store)
         /\ answer.results.identified = Cardinality({ r \in store : r.is_identified })
         /\ answer.results.identified <= answer.results.total

(***************************************************************************)
(* The statistics of a table whose rows carry several technologies         *)
(***************************************************************************)
\* the tables: rows of analyzed scans whose technology lists are in the
\* order of the catalog, url UNIQUE
StatStores ==
  LET lists == { << "Node.js", "Python", "Java", "PHP" >>, << "Ruby", "Go", "Rust" >>,
                 << "Python", "Ruby", "Go" >>, << "Rust" >>, << >> }
      rows == { analyzed_result(initial_result(url), techs) : url \in StoreUrls, techs \in lists }
  IN  { st \in SUBSET rows :
          /\ Cardinality(st) <= MaxStoreRows
          /\ \A r1, r2 \in st : r1.url = r2.url => r1 = r2 }

\* the statistics query against such a table, no API key
InitStats == InitEngine(StatStores, { <<"e","s","t","a","d","i","s","t","i","c","a","s">> }, {FALSE})

SpecStats == InitStats /\ [][NextQuery]_vars

\* the number of records of the store that carry the technology
RecordCount(tech) == Cardinality({ r \in store : tech \in Range(r.technologies) })

\* the technologies of the store
StoreTechnologies == UNION { Range(r.technologies) : r \in store }

\* the place where a technology is first seen while the records are iterated
\* in the order the store delivered them: the record, then the place in its list
FirstSeenAt(tech) ==
  LET i == CHOOSE i \in 1..Len(fetched) :
             /\ tech \in Range(fetched[i].technologies)
             /\ \A j \in 1..(i - 1) : tech \notin Range(fetched[j].technologies)
      k == CHOOSE k \in 1..Len(fetched[i].technologies) : fetched[i].technologies[k] = tech
  IN  << i, k >>

SeenBefore(t, u) ==
  \/ FirstSeenAt(t)[1] < FirstSeenAt(u)[1]
  \/ FirstSeenAt(t)[1] = FirstSeenAt(u)[1] /\ FirstSeenAt(t)[2] < FirstSeenAt(u)[2]

\* C21: the statistics intent reports at most five technologies, those with
\* the highest record counts in non-increasing order of count, and among
\* technologies with equal counts the one first seen while iterating the
\* records in store order comes first.
C21_TopFiveTechnologies ==
  (Answered /\ intent = "statistics" /\ answer.success) =>
    LET top == answer.results.technologies
        reported == { top[i][1] : i \in 1..Len(top) }
    IN  /\ Len(top) <= 5
        /\ Len(top) = IF Cardinality(StoreTechnologies) < 5
                      THEN Cardinality(StoreTechnologies) ELSE 5
        /\ Cardinality(reported) = Len(top)
        /\ \A i \in 1..Len(top) :
             /\ top[i][1] \in StoreTechnologies
             /\ top[i][2] = RecordCount(top[i][1])
        /\ \A i \in 1..(Len(top) - 1) :
             \/ top[i][2] > top[i + 1][2]
             \/ top[i][2] = top[i + 1][2] /\ SeenBefore(top[i][1], top[i + 1][1])
        /\ \A u \in StoreTechnologies \ reported :
             \A i \in 1..Len(top) :
               \/ top[i][2] > RecordCount(u)
               \/ top[i][2] = RecordCount(u) /\ SeenBefore(top[i][1], u)

\* more than five technologies, two counts, and a tie among the reported ones
C21_Witness ==
  /\ Answered /\ intent = "statistics" /\ answer.success
  /\ Cardinality(StoreTechnologies) > 5
  /\ Len(answer.results.technologies) = 5
  /\ answer.results.technologies[1][2] = 2
  /\ answer.results.technologies[2][2] = 1
  /\ answer.results.technologies[5][2] = 1
  /\ \E u \in StoreTechnologies : RecordCount(u) = 1 /\ \A i \in 1..5 : answer.results.technologies[i][1] # u

(***************************************************************************)
(* Queries with and without GEMINI_API_KEY                                 *)
(***************************************************************************)
\* the queries: those that trigger no intent or one, and the examples the
\* engine suggests
InitAi == InitEngine(Stores, OtherQueries \cup Range(get_suggested_queries), BOOLEAN)

SpecAi == InitAi /\ [][NextQuery]_vars

\* C22: a query that matches no intent pattern, with no AI collaborator
\* configured, returns success=false with the fixed could-not-process
\* explanation and the fixed list of example queries, and leaves the store
\* (repository records and AI query log) unchanged.
C22_FallbackWithoutCollaborator ==
  [][(pc = "handle" /\ intent = "none" /\ ~api_key) =>
       /\ answer'.success = FALSE
       /\ answer'.explanation = [kind |-> "could_not_process", query |-> strip(lower(query))]
       /\ answer'.suggestions = get_suggested_queries
       /\ Len(answer'.suggestions) = 7
       /\ handled' = << "_process_fallback" >>
       /\ collaborator' = "unused"
       /\ store' = store
       /\ ai_queries' = ai_queries]_vars

C22_Witness ==
  /\ Answered /\ intent = "none" /\ ~api_key
  /\ store # {}
  /\ answer.explanation.kind = "could_not_process"

\* C23: when an AI collaborator is configured and a query matches no intent,
\* any failure of the collaborator (model unavailable, generate call raising)
\* makes process_natural_language_query return success=false with an
\* explanatory message; it never raises, and no AI query log entry is
\* appended for the failed call.
C23_CollaboratorFailureDegrades ==
  [][(pc = "handle" /\ intent = "none" /\ api_key) =>
       /\ pc' = "answered"
       /\ answer' # NoAnswer
       /\ "success" \in DOMAIN answer'
       /\ collaborator' \in { "unavailable", "raised", "answered" }
       /\ collaborator' \in { "unavailable", "raised" } =>
            /\ answer'.success = FALSE
            /\ answer'.explanation.kind \in { "model_unavailable", "gemini_error" }
            /\ ai_queries' = ai_queries
       /\ store' = store]_vars

C23_Witness ==
  /\ Answered /\ intent = "none" /\ api_key
  /\ collaborator = "raised"
  /\ ~answer.success
  /\ ai_queries = << >>

\* C24: a failed read of the store during a rule-matched query (owner,
\* technologies, statistics, unidentified, count) reaches the caller as a
\* failed operation (success=false); it is never reported as a successful
\* answer over an empty catalog, such as the all-identified message or a
\* count of 0.
C24_FailedReadSurfaces ==
  (Answered /\ intent # "none" /\ ~fetch_ok) => ~answer.success

(***************************************************************************)
(* CMDBTool.scan_multiple_repositories: the batch scan, then the enhanced   *)
(* explanations of the unidentified repositories                           *)
(***************************************************************************)
\* AIValidator._generate_fallback_explanation with file_analysis None: the
\* basic-analysis template around url, owner and name
_generate_fallback_explanation(repo_data) ==
  [kind |-> "basic_analysis", url |-> repo_data.url, msg |-> ""]

\* AIValidator.generate_enhanced_explanation: the fallback without a model
\* and when the call raises, else the text of the model
generate_enhanced_explanation(repo_data, key, generate_ok) ==
  IF ~key THEN _generate_fallback_explanation(repo_data)
  ELSE IF generate_ok THEN [kind |-> "ai_analysis", url |-> repo_data.url, msg |-> ""]
  ELSE _generate_fallback_explanation(repo_data)

\* the loop of scan_multiple_repositories over the unidentified rows: the
\* table and the ai_queries log after the rows from position k on
RECURSIVE enhance_from(_, _, _, _, _, _, _)
enhance_from(k, repos, st, log, generate_ok, save_ok, db_ok) ==
  IF k > Len(repos) THEN [store |-> st, log |-> log]
  ELSE LET repo == repos[k]
           answered == api_key /\ generate_ok[repo.url]
           enhanced == generate_enhanced_explanation(repo, api_key, generate_ok[repo.url])
       IN  IF repo.url \notin Range(urls)
           THEN enhance_from(k + 1, repos, st, log, generate_ok, save_ok, db_ok)
           ELSE enhance_from(k + 1, repos,
                  IF db_ok[repo.url]
                  THEN insert_repository(st, repo.url, repo.owner_name, repo.repo_name,
                                         repo.technologies, repo.is_identified,
                                         repo.status, enhanced)
                  ELSE st,
                  IF answered
                  THEN save_ai_query(log, repo.url, "unidentified_analysis", save_ok)
                  ELSE log,
                  generate_ok, save_ok, db_ok)

\* scan_multiple_repositories after batch_scan_repositories has returned
EnhanceExplanations ==
  /\ pc = "done"
  /\ \E read_ok \in BOOLEAN, table \in Orderings(store), save_ok \in BOOLEAN :
     \E generate_ok \in [Urls -> BOOLEAN], db_ok \in [Urls -> BOOLEAN] :
       LET after == enhance_from(1, get_unidentified_repositories(table, read_ok),
                                 store, ai_queries, generate_ok, save_ok, db_ok)
       IN  /\ store' = after.store
           /\ ai_queries' = after.log
           /\ fetched' = table
           /\ fetch_ok' = read_ok
  /\ pc' = "enhanced"
  /\ UNCHANGED << urls, pos, temp_dir, scratch, tree, manifest, result, results,
                  all_files, technologies, clone_outcome, walked, walk_failed, last_stored,
                  query, intent, argument, answer, handled, api_key, collaborator >>

InitTool == InitScan(BOOLEAN)

NextTool == Next \/ EnhanceExplanations

SpecTool == InitTool /\ [][NextTool]_vars

\* C25: when no AI collaborator is configured or the AI call fails, the
\* explanation stored for a scanned repository that was not identified is
\* the scanner's deterministic explanation (the structured template with the
\* extension census for an analyzed repository with zero technologies, the
\* clone-failure text for a clone_failed one) after
\* CMDBTool.scan_single_repository or scan_multiple_repositories completes.
C25_ScannerExplanationKept ==
  pc = "enhanced" =>
    \A r \in store :
      (~r.is_identified /\ r.url \in Range(urls)) =>
        /\ ~api_key => r.ai_explanation.kind # "ai_analysis"
        /\ r.ai_explanation.kind # "ai_analysis" =>
             /\ r.ai_explanation = last_stored[r.url].ai_explanation
             /\ r.status = "analyzed" => r.ai_explanation.kind = "unidentified"
             /\ r.status = "clone_failed" => r.ai_explanation.kind = "clone_failed"

(***************************************************************************)
(* The explanation of an unidentified repository                           *)
(***************************************************************************)
\* the os.walk of _generate_explanation_for_unidentified, which prunes the
\* hidden directories only: the files of the tree under no hidden directory
CensusWalk(tree_files) ==
  { f \in tree_files : \A k \in 1..Len(DirParts(f)) : ~StartsWith(DirParts(f)[k], << "." >>) }

\* file.split('.')[-1].lower() of the file name of a path
extension_of(path) ==
  LET file == SplitSlash(path)[Len(SplitSlash(path))]
      dot == CHOOSE k \in 1..Len(file) :
               file[k] = "." /\ \A j \in (k + 1)..Len(file) : file[j] # "."
  IN  lower(SubSeq(file, dot + 1, Len(file)))

\* _generate_explanation_for_unidentified: the counts and the extensions of
\* the walk in the order walk_order, and one suggestion line per extension of
\* the lookup table in the order set_order, the order in which Python
\* iterates the set file_extensions; discovered is the order in which the
\* walk met the extensions (it is not part of the text)
_generate_explanation_for_unidentified(tree_files, url, walk_order, set_order, census_error) ==
  IF census_error THEN [kind |-> "no_detail", url |-> url, msg |-> "census"]
  ELSE LET extension_suggestions ==
             { <<"p","y">>, <<"j","s">>, <<"j","a","v","a">>, <<"p","h","p">>, <<"r","b">>,
               <<"g","o">>, <<"r","s">>, <<"c","s">>, <<"c","p","p">>, <<"c">>, <<"t","s">>,
               <<"d","a","r","t">>, <<"k","t">>, <<"s","w","i","f","t">>,
               <<"s","c","a","l","a">> }
           name_of(f) == SplitSlash(f)[Len(SplitSlash(f))]
           counted == SelectSeq(walk_order, LAMBDA f : ~StartsWith(name_of(f), << "." >>))
           with_dot == SelectSeq(counted, LAMBDA f : HasChar(name_of(f), "."))
           met == [k \in 1..Len(with_dot) |-> extension_of(with_dot[k])]
           dirs == UNION { { SubSeq(DirParts(f), 1, n) : n \in 1..Len(DirParts(f)) } :
                           f \in CensusWalk(tree_files) }
       IN  [kind |-> "unidentified", url |-> url, msg |-> "",
            file_count |-> Len(counted),
            dir_count |-> Cardinality(dirs),
            file_extensions |-> Range(met),
            discovered |-> first_seen(met),
            suggestions |-> SelectSeq(set_order, LAMBDA e : e \in extension_suggestions)]

\* scan_repository after the classification found no technology: the
\* second walk of the clone and the explanation it gives
Explain ==
  /\ pc = "classified"
  /\ technologies = << >>
  /\ \E walk_order \in Orderings(CensusWalk(tree)), census_error \in BOOLEAN :
     \E set_order \in Orderings({ extension_of(f) : f \in
                         { g \in CensusWalk(tree) :
                             LET file == SplitSlash(g)[Len(SplitSlash(g))]
                             IN  ~StartsWith(file, << "." >>) /\ HasChar(file, ".") } }) :
       result' = [analyzed_result(result, technologies) EXCEPT !.ai_explanation =
                    _generate_explanation_for_unidentified(tree, result.url, walk_order,
                                                           set_order, census_error)]
  /\ pc' = "explained"
  /\ UNCHANGED << urls, pos, temp_dir, scratch, tree, manifest, store, results,
                  all_files, technologies, clone_outcome, walked, walk_failed, last_stored,
                  query, intent, argument, answer, handled,
                  fetched, fetch_ok, api_key, ai_queries, collaborator >>

NextCensus == NextClassify \/ Explain

SpecCensus == InitClassify /\ [][NextCensus]_vars

\* the explanation of the unidentified repository has been generated
Explained == pc = "explained" /\ result.ai_explanation.kind = "unidentified"

\* the files of the inventory of the Tree Walker that are not hidden
InventoryFiles ==
  { f \in TreeWalk(tree) : ~StartsWith(SplitSlash(f)[Len(SplitSlash(f))], << "." >>) }

\* C26: the extension census of an unidentified repository counts exactly
\* the files of the inventory the Tree Walker produced, minus hidden files: a
\* file under a directory the walker pruned (node_modules, __pycache__,
\* target) contributes neither to the file count nor to the set of extensions.
C26_CensusCountsTheInventory ==
  Explained =>
    /\ result.ai_explanation.file_count = Cardinality(InventoryFiles)
    /\ result.ai_explanation.file_extensions =
         { extension_of(f) : f \in { g \in InventoryFiles :
                                       HasChar(SplitSlash(g)[Len(SplitSlash(g))], ".") } }

\* C27: in the synthesized explanation, the suggestion lines (one per present
\* extension found in the lookup table) appear in the order in which those
\* extensions were first discovered during the walk, so two walks that
\* discover the same extensions in the same order give the same text.
C27_SuggestionsInDiscoveryOrder ==
  Explained =>
    result.ai_explanation.suggestions =
      SelectSeq(result.ai_explanation.discovered,
                LAMBDA e : e \in Range(result.ai_explanation.suggestions))

\* C28: during batch_scan_repositories at most one scratch directory exists
\* at any moment, each scan's scratch directory is removed before that
\* scan's record is written, and the clone of the URL at position k+1 does
\* not start until the persistence attempt for the URL at position k has
\* finished.
C28_OneScratchAtATime ==
  /\ Cardinality(scratch) <= 1
  /\ pc = "persist" => scratch = {}
  /\ pc \in { "clone", "classify", "cleanup" } =>
       /\ scratch = { temp_dir }
       /\ \A k \in 1..(pos - 1) : results[urls[k]].present

\* the part of C28 on the order of the steps: a scan starts only after the
\* outcome of every earlier position of the batch has been recorded
SequentialScans ==
  pc \in { "clone", "classify", "cleanup", "persist" } =>
    \A k \in 1..(pos - 1) : results[urls[k]].present

\* C29: scan_and_store_repository writes a record for the URL whatever
\* terminal status the scan reached (analyzed, clone_failed or error) and
\* returns True exactly when the upsert returned an id; so a batch entry with
\* success=true means the record was persisted, not that the repository was
\* cloned or analyzed, and success=false means no record was written by that
\* step.
C29_SuccessMeansPersisted ==
  [][pc = "persist" =>
       LET entry == results'[urls[pos]]
       IN  /\ entry.present
           /\ result.status \in { "analyzed", "clone_failed", "error" }
           /\ entry.success => RowsFor(store', result.url) = { result }
           /\ entry.success => \A r \in store' : r.url # result.url => r \in store
           /\ ~entry.success => store' = store]_vars

\* a batch entry with success=true for a repository that was not cloned
C29_Witness ==
  /\ pc \in { "next", "done" }
  /\ \E u \in Range(urls) :
       /\ results[u].present /\ results[u].success
       /\ last_stored[u].status = "clone_failed"
       /\ last_stored[u] \in store

\* the handler the wording of each suggested query asks for, in the order of
\* get_suggested_queries
AskedFor ==
  << "repository_owner", "technologies_used", "owner_repositories",
     "projects_with_technology", "unidentified_repos", "statistics", "repository_count" >>

\* C30: every example query returned by get_suggested_queries, when passed
\* to process_natural_language_query with no AI collaborator configured, is
\* matched by one of the seven rule-based intents and is dispatched to the
\* handler its wording asks for; none of them ends in the could-not-process
\* fallback.
C30_SuggestedQueriesAreAnswered ==
  \A k \in 1..Len(get_suggested_queries) :
    (Answered /\ ~api_key /\ query = get_suggested_queries[k]) =>
      /\ handled = << AskedFor[k] >>
      /\ intent = AskedFor[k]

\* the suggested queries the engine does dispatch to the handler asked for
SuggestedQueriesDispatched ==
  \A k \in { 1, 2, 3, 5, 6, 7 } :
    (Answered /\ ~api_key /\ query = get_suggested_queries[k]) =>
      handled = << AskedFor[k] >>

====
